---- MODULE Spec2Model ----
(***************************************************************************)
(* A model of the DijNAV route finder: the shortest-path engine            *)
(* (app.js dijkstra), the grid graph builder (graph.js buildGridGraph),    *)
(* the road graph builder (osm.js fetchRoadGraph) and the page (app.js:   *)
(* the map click, reset, 'Use roads', 'Avoid unpaved' and search handlers).*)
(*                                                                         *)
(* JavaScript numbers are modelled by integers.  Infinity and undefined    *)
(* are two values outside the naturals, compared the way JavaScript's <    *)
(* compares them (Lt).  A JavaScript object or Map is a record             *)
(* [keys, at]: keys is the sequence of its keys in iteration order and at  *)
(* the mapping from key to value.                                          *)
(***************************************************************************)
EXTENDS Integers, Sequences, FiniteSets, TLC

VARIABLES
    adjacency,  \* dijkstra: the adjacency argument, an object id -> edge list
    start,      \* dijkstra: the start argument
    goal,       \* dijkstra: the goal argument
    opts,       \* dijkstra: [avoidUnpaved, unpavedFactor]
    dist,       \* dijkstra: tentative distances, a partial map from id
    prev,       \* dijkstra: predecessor links, a partial map from id
    visited,    \* dijkstra: the set of extracted ids
    queue,      \* dijkstra: the Set of unvisited ids, in insertion order
    path,       \* dijkstra: the path under reconstruction
    cursor,     \* dijkstra: the local u of the backward walk
    extracted,  \* history: the ids extracted so far, in extraction order
    result,     \* dijkstra: the returned { distance, path, visitedCount }
    call,       \* builders: the arguments of the running builder call
    requests,   \* fetchRoadGraph: the number of data requests issued
    error,      \* builders: the message of the Error thrown, "" when none
    nodeMap,    \* fetchRoadGraph: the Map osm id -> { lat, lng }
    ways,       \* fetchRoadGraph: the retained way elements
    idToIndex,  \* fetchRoadGraph: the Map osm id -> node id
    nodes,      \* builders: the node list
    edges,      \* builders: the edge list
    graph,      \* builders: the returned { nodes, edges, adjacency }
    clicked,    \* click handler: the clicked point { lat, lng }
    currentGraph, \* page: the installed graph
    nid,        \* click handler: what nearestNodeId returned
    startId,    \* page: the selected start id, null when none
    endId,      \* page: the selected destination id, null when none
    routeLine,  \* page: the ids along the drawn route line, <<>> when null
    useRoads,   \* page: the 'Use roads' checkbox is checked
    avoidUnpaved, \* page: the 'Avoid unpaved' checkbox is checked
    abortCtrl,  \* page: the load whose AbortController abortCtrl holds, 0 when null
    loads,      \* page: the road loads awaited, by slot
    mapCenter,  \* page: the latitude of map.getCenter()
    handler,    \* page: the handler that called dijkstra and waits for it
    earlier,    \* history: an earlier call on the same graph and its result
    pc          \* the position of the running function

dvars == <<adjacency, start, goal, opts, dist, prev, visited, queue, path,
           cursor, extracted, result>>

bvars == <<call, requests, error, nodeMap, ways, idToIndex, nodes, edges, graph>>

uvars == <<routeLine, useRoads, avoidUnpaved, abortCtrl, loads, mapCenter,
           handler, earlier>>

nvars == <<clicked, currentGraph, nid, startId, endId, uvars>>

vars == <<dvars, bvars, nvars, pc>>

----------------------------------------------------------------------------
\* Bounds of the model.

\* The generic graphs have the ids "0" .. MaxNodes - 1.
MaxNodes == 3

\* The generic graphs have at most MaxEdges directed edges.
MaxEdges == 3

\* Edge weights of the generic graphs range over 0 .. MaxWeight.
MaxWeight == 1

\* The generic graphs of the calls followed to their end have at most
\* MaxRunEdges directed edges.
MaxRunEdges == 2

\* Grids have 1 .. MaxRows rows and 1 .. MaxCols columns.
MaxRows == 3

MaxCols == 3

\* The grid centre has latitude and longitude in 0 .. MaxCenter, and the
\* spacing delta is 2, 4, .. 2 * MaxSpacing.
MaxCenter == 2

MaxSpacing == 2

\* A response names the osm ids 1 .. MaxOsmId, holds at most MaxWays way
\* elements, and a way lists at most MaxWayLen node ids.
MaxOsmId == 3

MaxWays == 2

MaxWayLen == 3

\* The corners of a bounding box have coordinates in -1 .. MaxSpan.
MaxSpan == 6

\* The node list of a nearest-node query has at most MaxNear nodes, with
\* latitudes in 0 .. MaxLat (and longitudes 0 or 1).
MaxNear == 3

MaxLat == 2

----------------------------------------------------------------------------
\* JavaScript values.

\* Infinity: greater than every number.
Infinity == -1

\* undefined: what reading an absent property gives.
Undefined == -2

\* null and undefined where an id (a string) is expected.
Null == "null"

UndefinedId == "undefined"

\* a < b on numbers, Infinity and undefined (undefined converts to NaN, and
\* every comparison with NaN is false).
Lt(a, b) ==
    IF a = Undefined \/ b = Undefined THEN FALSE
    ELSE IF a = Infinity THEN FALSE
    ELSE IF b = Infinity THEN TRUE
    ELSE a < b

\* obj[k]: the value at k, undefined when k is absent.
Get(obj, k) == IF k \in DOMAIN obj THEN obj[k] ELSE Undefined

\* obj[k] where the values are ids.
GetId(obj, k) == IF k \in DOMAIN obj THEN obj[k] ELSE UndefinedId

\* obj[k] = v.
Put(obj, k, v) == [x \in DOMAIN obj \cup {k} |-> IF x = k THEN v ELSE obj[x]]

\* The empty object.
EmptyMap == [x \in {} |-> Undefined]

\* The elements of a sequence.
Range(s) == {s[i] : i \in DOMAIN s}

\* map.set(k, v) on a Map: a new key goes last, a known key keeps its place.
MapSet(mp, k, v) ==
    [keys |-> IF k \in Range(mp.keys) THEN mp.keys ELSE Append(mp.keys, k),
     at   |-> Put(mp.at, k, v)]

EmptyJsMap == [keys |-> <<>>, at |-> EmptyMap]

\* set.delete(x) on a Set kept in insertion order.
RECURSIVE Without(_, _)
Without(s, x) ==
    IF s = <<>> THEN <<>>
    ELSE IF Head(s) = x THEN Tail(s)
    ELSE <<Head(s)>> \o Without(Tail(s), x)

\* String(n) for a natural number n.
Digits == <<"0", "1", "2", "3", "4", "5", "6", "7", "8", "9">>

RECURSIVE StringOf(_)
StringOf(n) ==
    IF n < 10 THEN Digits[n + 1]
    ELSE StringOf(n \div 10) \o Digits[(n % 10) + 1]

----------------------------------------------------------------------------
\* The adjacency list both builders end with.

\* const adjacency = Object.create(null);
\* for (const n of nodes) adjacency[n.id] = [];
\* for (const e of edges) adjacency[e.from].push({ to, weight, unpaved, surface });
RECURSIVE UniqueIds(_)
UniqueIds(ids) ==
    IF ids = <<>> THEN <<>>
    ELSE LET rest == UniqueIds(SubSeq(ids, 1, Len(ids) - 1))
             last == ids[Len(ids)]
         IN  IF last \in Range(rest) THEN rest ELSE Append(rest, last)

\* An adjacency list grouped by the edges' targets.
AdjacencyByTarget(ns, es) ==
    LET ids == [i \in DOMAIN ns |-> ns[i].id]
        into(id) == SelectSeq(es, LAMBDA e : e.to = id)
    IN  [keys |-> UniqueIds(ids),
         at   |-> [id \in Range(ids) |->
                     [i \in DOMAIN into(id) |->
                        [to |-> into(id)[i].to, weight |-> into(id)[i].weight,
                         unpaved |-> into(id)[i].unpaved,
                         surface |-> into(id)[i].surface]]]]

AdjacencyEntry(e) ==
    [to |-> e.to, weight |-> e.weight, unpaved |-> e.unpaved, surface |-> e.surface]

BuildAdjacency(ns, es) ==
    LET ids == [i \in DOMAIN ns |-> ns[i].id]
        from(id) == SelectSeq(es, LAMBDA e : e.from = id)
    IN  [keys |-> UniqueIds(ids),
         at   |-> [id \in Range(ids) |->
                     [i \in DOMAIN from(id) |-> AdjacencyEntry(from(id)[i])]]]

----------------------------------------------------------------------------
\* The shortest-path engine: function dijkstra(adjacency, start, goal, opts).

\* const nodes = Object.keys(adjacency);
ObjectKeys(obj) == obj.keys

\* for (const n of nodes) dist[n] = Infinity;  dist[start] = 0;
InitialDist(adj, s) ==
    Put([n \in Range(ObjectKeys(adj)) |-> Infinity], s, 0)

\* The scan for the queued node of smallest dist: from position i on, with
\* (u, best) as they stand.  Only a strictly smaller dist replaces u.
RECURSIVE ScanMin(_, _, _, _, _)
ScanMin(q, d, i, u, best) ==
    IF i > Len(q) THEN u
    ELSE IF Lt(Get(d, q[i]), best)
         THEN ScanMin(q, d, i + 1, q[i], Get(d, q[i]))
         ELSE ScanMin(q, d, i + 1, u, best)

\* A scan that stops at the first queued node with a finite dist.
PickFirstReached(q, d) ==
    IF \E i \in DOMAIN q : Get(d, q[i]) # Infinity
    THEN q[CHOOSE i \in DOMAIN q :
             /\ Get(d, q[i]) # Infinity
             /\ \A j \in 1..(i - 1) : Get(d, q[j]) = Infinity]
    ELSE Null

PickMin(q, d) == ScanMin(q, d, 1, Null, Infinity)

\* A factor that forgets the avoidUnpaved switch.
FactorIgnoringSwitch(o, unpaved) == IF unpaved THEN o.unpavedFactor ELSE 1

\* const factor = (avoidUnpaved && unpaved) ? unpavedFactor : 1;
Factor(o, unpaved) == IF o.avoidUnpaved /\ unpaved THEN o.unpavedFactor ELSE 1

\* A cost that forgets the weight and counts edges.
EffectiveCostPerEdge(o, e) == Factor(o, e.unpaved)

\* w * factor
EffectiveCost(o, e) == e.weight * Factor(o, e.unpaved)

\* A relaxation that records alt without comparing it with dist[v].
RECURSIVE RelaxFromOverwriting(_, _, _, _, _, _)
RelaxFromOverwriting(es, i, u, vis, o, m) ==
    IF i > Len(es) THEN m
    ELSE LET v   == es[i].to
             alt == m.dist[u] + EffectiveCost(o, es[i])
         IN  IF v \in vis THEN RelaxFromOverwriting(es, i + 1, u, vis, o, m)
             ELSE RelaxFromOverwriting(es, i + 1, u, vis, o,
                                       [dist |-> Put(m.dist, v, alt),
                                        prev |-> Put(m.prev, v, u)])

\* The relaxation loop over adjacency[u], from edge i on, with the maps
\* [dist, prev] as they stand; vis is the visited set, u included.
RECURSIVE RelaxFrom(_, _, _, _, _, _)
RelaxFrom(es, i, u, vis, o, m) ==
    IF i > Len(es) THEN m
    ELSE LET v   == es[i].to
             alt == m.dist[u] + EffectiveCost(o, es[i])
         IN  IF v \in vis THEN RelaxFrom(es, i + 1, u, vis, o, m)
             ELSE IF Lt(alt, Get(m.dist, v))
                  THEN RelaxFrom(es, i + 1, u, vis, o,
                                 [dist |-> Put(m.dist, v, alt),
                                  prev |-> Put(m.prev, v, u)])
                  ELSE RelaxFrom(es, i + 1, u, vis, o, m)

Relax(adj, u, vis, o, d, p) ==
    RelaxFrom(adj.at[u], 1, u, vis, o, [dist |-> d, prev |-> p])

\* The result variable before the function has returned.
NoResult == [distance |-> Undefined, path |-> <<>>, visitedCount |-> 0]

\* while (queue.size): the queue is empty, the loop ends.
LoopExitEmpty ==
    /\ pc = "loop"
    /\ queue = <<>>
    /\ pc' = "reconstruct"
    /\ UNCHANGED <<adjacency, start, goal, opts, dist, prev, visited, queue,
                   path, cursor, extracted, result>>
    /\ UNCHANGED bvars
    /\ UNCHANGED nvars

\* if (u === null) break;
LoopBreakUnreachable ==
    /\ pc = "loop"
    /\ queue # <<>>
    /\ PickMin(queue, dist) = Null
    /\ pc' = "reconstruct"
    /\ UNCHANGED <<adjacency, start, goal, opts, dist, prev, visited, queue,
                   path, cursor, extracted, result>>
    /\ UNCHANGED bvars
    /\ UNCHANGED nvars

\* A break at the goal taken before the goal is marked visited.
LoopBreakGoalUnmarked ==
    /\ pc = "loop"
    /\ queue # <<>>
    /\ LET u == PickMin(queue, dist)
       IN  /\ u # Null
           /\ u = goal
           /\ queue' = Without(queue, u)
           /\ extracted' = Append(extracted, u)
    /\ pc' = "reconstruct"
    /\ UNCHANGED <<adjacency, start, goal, opts, dist, prev, visited, path,
                   cursor, result>>
    /\ UNCHANGED bvars
    /\ UNCHANGED nvars

\* queue.delete(u); visited.add(u); if (u === goal) break;
LoopBreakGoal ==
    /\ pc = "loop"
    /\ queue # <<>>
    /\ LET u == PickMin(queue, dist)
       IN  /\ u # Null
           /\ u = goal
           /\ queue' = Without(queue, u)
           /\ visited' = visited \cup {u}
           /\ extracted' = Append(extracted, u)
    /\ pc' = "reconstruct"
    /\ UNCHANGED <<adjacency, start, goal, opts, dist, prev, path, cursor, result>>
    /\ UNCHANGED bvars
    /\ UNCHANGED nvars

\* queue.delete(u); visited.add(u); then the relaxation of adjacency[u].
LoopRelax ==
    /\ pc = "loop"
    /\ queue # <<>>
    /\ LET u == PickMin(queue, dist)
       IN  /\ u # Null
           /\ u # goal
           /\ queue' = Without(queue, u)
           /\ visited' = visited \cup {u}
           /\ extracted' = Append(extracted, u)
           /\ LET m == Relax(adjacency, u, visited \cup {u}, opts, dist, prev)
              IN  /\ dist' = m.dist
                  /\ prev' = m.prev
    /\ UNCHANGED <<adjacency, start, goal, opts, path, cursor, result, pc>>
    /\ UNCHANGED bvars
    /\ UNCHANGED nvars

\* A reconstruction that walks back whether or not the goal was reached.
ReconstructUnguarded ==
    /\ pc = "reconstruct"
    /\ path' = <<>>
    /\ cursor' = goal
    /\ pc' = "walk"
    /\ UNCHANGED <<adjacency, start, goal, opts, dist, prev, visited, queue,
                   extracted, result>>
    /\ UNCHANGED bvars
    /\ UNCHANGED nvars

\* A reconstruction whose guard forgets the case u === start.
ReconstructWithoutStartCase ==
    /\ pc = "reconstruct"
    /\ path' = <<>>
    /\ cursor' = goal
    /\ pc' = IF GetId(prev, goal) # UndefinedId THEN "walk" ELSE "return"
    /\ UNCHANGED <<adjacency, start, goal, opts, dist, prev, visited, queue,
                   extracted, result>>
    /\ UNCHANGED bvars
    /\ UNCHANGED nvars

\* const path = []; let u = goal;
\* if (prev[u] !== undefined || u === start): the walk is entered or skipped.
ReconstructBegin ==
    /\ pc = "reconstruct"
    /\ path' = <<>>
    /\ cursor' = goal
    /\ pc' = IF GetId(prev, goal) # UndefinedId \/ goal = start THEN "walk" ELSE "return"
    /\ UNCHANGED <<adjacency, start, goal, opts, dist, prev, visited, queue,
                   extracted, result>>
    /\ UNCHANGED bvars
    /\ UNCHANGED nvars

\* A walk that pushes where the code unshifts.
WalkStepPushing ==
    /\ pc = "walk"
    /\ cursor # UndefinedId
    /\ path' = Append(path, cursor)
    /\ cursor' = GetId(prev, cursor)
    /\ UNCHANGED <<adjacency, start, goal, opts, dist, prev, visited, queue,
                   extracted, result, pc>>
    /\ UNCHANGED bvars
    /\ UNCHANGED nvars

\* A walk that never moves u on to prev[u].
WalkStepStaying ==
    /\ pc = "walk"
    /\ cursor # UndefinedId
    /\ path' = <<cursor>> \o path
    /\ UNCHANGED <<adjacency, start, goal, opts, dist, prev, visited, queue,
                   cursor, extracted, result, pc>>
    /\ UNCHANGED bvars
    /\ UNCHANGED nvars

\* while (u !== undefined) { path.unshift(u); u = prev[u]; }: one iteration.
WalkStep ==
    /\ pc = "walk"
    /\ cursor # UndefinedId
    /\ path' = <<cursor>> \o path
    /\ cursor' = GetId(prev, cursor)
    /\ UNCHANGED <<adjacency, start, goal, opts, dist, prev, visited, queue,
                   extracted, result, pc>>
    /\ UNCHANGED bvars
    /\ UNCHANGED nvars

\* while (u !== undefined): u is undefined, the walk ends.
WalkEnd ==
    /\ pc = "walk"
    /\ cursor = UndefinedId
    /\ pc' = "return"
    /\ UNCHANGED <<adjacency, start, goal, opts, dist, prev, visited, queue,
                   path, cursor, extracted, result>>
    /\ UNCHANGED bvars
    /\ UNCHANGED nvars

\* return { distance: dist[goal], path, visitedCount: visited.size };
Return ==
    /\ pc = "return"
    /\ result' = [distance     |-> Get(dist, goal),
                  path         |-> path,
                  visitedCount |-> Cardinality(visited)]
    /\ pc' = "done"
    /\ UNCHANGED <<adjacency, start, goal, opts, dist, prev, visited, queue,
                   path, cursor, extracted>>
    /\ UNCHANGED bvars
    /\ UNCHANGED nvars

----------------------------------------------------------------------------
\* Great-circle distance.
\*
\* function haversine(a, b): 2 R asin(min(1, sqrt(h))) with
\*   h = sin^2(dLat / 2) + cos(lat1) cos(lat2) sin^2(dLng / 2).
\* The model works in integers: a coordinate is a whole number of angle
\* units, the cosine of a latitude is the fixed-point value CosScale - lat^2
\* (it falls as |lat| grows), and for the small angles of the model the
\* distance is sqrt((CosScale dLat)^2 + cos(lat1) cos(lat2) dLng^2), rounded
\* down.  The coordinates of the model stay where the clamp min(1, .) is
\* not reached.

\* The fixed-point scale: the length of one angle unit along a meridian.
CosScale == 1000

Cos(lat) == CosScale - lat * lat

\* The integer square root, by bisection on [lo, hi].
RECURSIVE SqrtBetween(_, _, _)
SqrtBetween(n, lo, hi) ==
    IF lo >= hi THEN lo
    ELSE LET mid == (lo + hi + 1) \div 2
         IN  IF mid * mid <= n THEN SqrtBetween(n, mid, hi)
             ELSE SqrtBetween(n, lo, mid - 1)

Abs(x) == IF x < 0 THEN -x ELSE x

\* The root lies in 0 .. CosScale * (|dLat| + |dLng|).
Haversine(a, b) ==
    LET dLat == b.lat - a.lat
        dLng == b.lng - a.lng
    IN  SqrtBetween(CosScale * CosScale * dLat * dLat
                      + Cos(a.lat) * Cos(b.lat) * dLng * dLng,
                    0, CosScale * (Abs(dLat) + Abs(dLng)))

----------------------------------------------------------------------------
\* The grid graph builder: buildGridGraph(center, rows, cols, delta).

\* function idx(r, c) { return r * cols + c; }
Idx(r, c, cols) == r * cols + c

\* The node pushed at (r, c); id++ has counted the nodes pushed before it.
\* delta is an even number of units, so (rows - 1) * delta / 2 is whole.
GridNode(center, rows, cols, delta, r, c) ==
    [id  |-> StringOf(r * cols + c),
     lat |-> (center.lat - ((rows - 1) * delta) \div 2) + r * delta,
     lng |-> (center.lng - ((cols - 1) * delta) \div 2) + c * delta]

\* for r, for c: nodes.push(...), in row-major order.
GridNodes(center, rows, cols, delta) ==
    [k \in 1..(rows * cols) |->
       GridNode(center, rows, cols, delta, (k - 1) \div cols, (k - 1) % cols)]

\* Neighbors without the left one.
GridNeighborsWithoutLeft(rows, cols, r, c) ==
    (IF r > 0 THEN <<r * cols - cols + c>> ELSE <<>>)
    \o (IF r < rows - 1 THEN <<r * cols + cols + c>> ELSE <<>>)
    \o (IF c < cols - 1 THEN <<r * cols + c + 1>> ELSE <<>>)

\* Neighbors whose right one wraps around to the first column.
GridNeighborsWrapping(rows, cols, r, c) ==
    (IF r > 0 THEN <<r * cols - cols + c>> ELSE <<>>)
    \o (IF r < rows - 1 THEN <<r * cols + cols + c>> ELSE <<>>)
    \o (IF c > 0 THEN <<r * cols + c - 1>> ELSE <<>>)
    \o <<r * cols + ((c + 1) % cols)>>

\* The neighbors array of (r, c): up, down, left, right, where they exist.
GridNeighbors(rows, cols, r, c) ==
    (IF r > 0 THEN <<Idx(r - 1, c, cols)>> ELSE <<>>)
    \o (IF r < rows - 1 THEN <<Idx(r + 1, c, cols)>> ELSE <<>>)
    \o (IF c > 0 THEN <<Idx(r, c - 1, cols)>> ELSE <<>>)
    \o (IF c < cols - 1 THEN <<Idx(r, c + 1, cols)>> ELSE <<>>)

\* The edges pushed for (r, c).
GridEdgesAt(ns, rows, cols, r, c) ==
    LET a  == ns[Idx(r, c, cols) + 1]
        nb == GridNeighbors(rows, cols, r, c)
    IN  [j \in DOMAIN nb |->
           [from    |-> a.id,
            to      |-> ns[nb[j] + 1].id,
            weight  |-> Haversine(a, ns[nb[j] + 1]),
            surface |-> "paved",
            unpaved |-> FALSE]]

\* for r, for c: the edges of the cells from cell k on, in row-major order.
RECURSIVE GridEdgesFrom(_, _, _, _)
GridEdgesFrom(ns, rows, cols, k) ==
    IF k >= rows * cols THEN <<>>
    ELSE GridEdgesAt(ns, rows, cols, k \div cols, k % cols)
         \o GridEdgesFrom(ns, rows, cols, k + 1)

GridEdges(ns, rows, cols) == GridEdgesFrom(ns, rows, cols, 0)

\* The value buildGridGraph returns.
BuildGridGraph(center, rows, cols, delta) ==
    LET ns == GridNodes(center, rows, cols, delta)
        es == GridEdges(ns, rows, cols)
    IN  [nodes |-> ns, edges |-> es, adjacency |-> BuildAdjacency(ns, es)]

\* No builder is running.
NoGraph ==
    [nodes |-> <<>>, edges |-> <<>>, adjacency |-> [keys |-> <<>>, at |-> EmptyMap]]

NoCall == [fn |-> "none"]

BuilderIdle ==
    /\ call = NoCall
    /\ requests = 0
    /\ error = ""
    /\ nodeMap = EmptyJsMap
    /\ ways = <<>>
    /\ idToIndex = EmptyMap
    /\ nodes = <<>>
    /\ edges = <<>>
    /\ graph = NoGraph

\* Lines 10-18: the nodes.
GridBuildNodes ==
    /\ pc = "grid.nodes"
    /\ nodes' = GridNodes(call.center, call.rows, call.cols, call.delta)
    /\ pc' = "grid.edges"
    /\ UNCHANGED <<call, requests, error, nodeMap, ways, idToIndex, edges, graph>>
    /\ UNCHANGED dvars
    /\ UNCHANGED nvars

\* Lines 37-54: the edges.
GridBuildEdges ==
    /\ pc = "grid.edges"
    /\ edges' = GridEdges(nodes, call.rows, call.cols)
    /\ pc' = "grid.adjacency"
    /\ UNCHANGED <<call, requests, error, nodeMap, ways, idToIndex, nodes, graph>>
    /\ UNCHANGED dvars
    /\ UNCHANGED nvars

\* Lines 56-61: the adjacency list and the return.
GridReturn ==
    /\ pc = "grid.adjacency"
    /\ graph' = [nodes |-> nodes, edges |-> edges,
                 adjacency |-> BuildAdjacency(nodes, edges)]
    /\ pc' = "built"
    /\ UNCHANGED <<call, requests, error, nodeMap, ways, idToIndex, nodes, edges>>
    /\ UNCHANGED dvars
    /\ UNCHANGED nvars

----------------------------------------------------------------------------
\* The road graph builder: fetchRoadGraph(bounds, options).  call.elements
\* is what the data source answers with (data.elements), call.ok whether it
\* answers with an ok status.
\*
\* An element of data.elements is a record [type, id, lat, lon, nodes, tags];
\* a field the element lacks holds its empty value.  tags is a record
\* [surface, tracktype, highway, oneway] with "" for an absent tag, which is
\* how the code reads them (tags.surface || '').

\* Lines 87-96: the parse loop from element i on.
RECURSIVE ParseFrom(_, _, _)
ParseFrom(els, i, acc) ==
    IF i > Len(els) THEN acc
    ELSE LET el == els[i]
         IN  IF el.type = "node"
             THEN ParseFrom(els, i + 1,
                    [acc EXCEPT !.nodeMap =
                        MapSet(acc.nodeMap, el.id, [lat |-> el.lat, lng |-> el.lon])])
             ELSE IF el.type = "way" /\ Len(el.nodes) >= 2
             THEN ParseFrom(els, i + 1, [acc EXCEPT !.ways = Append(acc.ways, el)])
             ELSE ParseFrom(els, i + 1, acc)

Parse(els) == ParseFrom(els, 1, [nodeMap |-> EmptyJsMap, ways |-> <<>>])

\* s.toLowerCase() on the tag values of the model.
ToLowerCase(s) ==
    CASE s = "Gravel"  -> "gravel"
      [] s = "Asphalt" -> "asphalt"
      [] s = "GRADE3"  -> "grade3"
      [] s = "Grade1"  -> "grade1"
      [] s = "Track"   -> "track"
      [] OTHER         -> s

UnpavedSurfaces ==
    {"unpaved", "gravel", "dirt", "ground", "earth", "grass", "mud", "sand",
     "pebblestone", "fine_gravel"}

UnpavedTracktypes == {"grade2", "grade3", "grade4", "grade5"}

\* A classification that reads the surface tag only.
IsUnpavedBySurfaceOnly(tags) == ToLowerCase(tags.surface) \in UnpavedSurfaces

\* function isUnpaved(tags = {})
IsUnpaved(tags) ==
    LET surface   == ToLowerCase(tags.surface)
        tracktype == ToLowerCase(tags.tracktype)
        highway   == ToLowerCase(tags.highway)
    IN  IF surface \in UnpavedSurfaces THEN TRUE
        ELSE IF tracktype # "" /\ tracktype \in UnpavedTracktypes THEN TRUE
        ELSE IF highway = "track" THEN TRUE
        ELSE FALSE

\* const surface = (way.tags && way.tags.surface) ? ... : (unpaved ? ... : ...);
SurfaceOf(tags, unpaved) ==
    IF tags.surface # "" THEN ToLowerCase(tags.surface)
    ELSE IF unpaved THEN "unpaved" ELSE "paved"

\* const id = `n${osmId}`;
RoadNodeId(osmId) == "n" \o StringOf(osmId)

\* Lines 110-116: the node list and the id mapping, over nodeMap.entries().
RoadNodes(nm) ==
    [i \in DOMAIN nm.keys |->
       [id |-> RoadNodeId(nm.keys[i]), lat |-> nm.at[nm.keys[i]].lat,
        lng |-> nm.at[nm.keys[i]].lng]]

RoadIdToIndex(nm) == [k \in Range(nm.keys) |-> RoadNodeId(k)]

\* Segments up to the first one with a missing endpoint: the rest of the way
\* is dropped with it.
RECURSIVE WayEdgesUntilGap(_, _, _, _)
WayEdgesUntilGap(way, i, nm, ids) ==
    IF i > Len(way.nodes) - 1 THEN <<>>
    ELSE LET aId     == way.nodes[i]
             bId     == way.nodes[i + 1]
             unpaved == IsUnpaved(way.tags)
             surface == SurfaceOf(way.tags, unpaved)
         IN  IF aId \notin DOMAIN nm.at \/ bId \notin DOMAIN nm.at THEN <<>>
             ELSE LET weight == Haversine(nm.at[aId], nm.at[bId])
                  IN  <<[from |-> ids[aId], to |-> ids[bId], weight |-> weight,
                         unpaved |-> unpaved, surface |-> surface],
                        [from |-> ids[bId], to |-> ids[aId], weight |-> weight,
                         unpaved |-> unpaved, surface |-> surface]>>
                      \o WayEdgesUntilGap(way, i + 1, nm, ids)

\* Lines 124-136: the segments of one way from position i on.
RECURSIVE WayEdgesFrom(_, _, _, _)
WayEdgesFrom(way, i, nm, ids) ==
    IF i > Len(way.nodes) - 1 THEN <<>>
    ELSE LET aId     == way.nodes[i]
             bId     == way.nodes[i + 1]
             unpaved == IsUnpaved(way.tags)
             surface == SurfaceOf(way.tags, unpaved)
             rest    == WayEdgesFrom(way, i + 1, nm, ids)
         IN  IF aId \notin DOMAIN nm.at \/ bId \notin DOMAIN nm.at THEN rest
             ELSE IF aId \notin DOMAIN ids \/ bId \notin DOMAIN ids THEN rest
             ELSE LET weight == Haversine(nm.at[aId], nm.at[bId])
                  IN  <<[from |-> ids[aId], to |-> ids[bId], weight |-> weight,
                         unpaved |-> unpaved, surface |-> surface],
                        [from |-> ids[bId], to |-> ids[aId], weight |-> weight,
                         unpaved |-> unpaved, surface |-> surface]>> \o rest

\* Segments that honour oneway=yes: no backward edge for such a way.
WayEdgesOneWay(way, nm, ids) ==
    LET both == WayEdgesFrom(way, 1, nm, ids)
    IN  IF way.tags.oneway = "yes"
        THEN SelectSeq(both, LAMBDA e :
               \E i \in 1..(Len(way.nodes) - 1) :
                  /\ way.nodes[i] \in DOMAIN ids /\ way.nodes[i + 1] \in DOMAIN ids
                  /\ e.from = ids[way.nodes[i]] /\ e.to = ids[way.nodes[i + 1]])
        ELSE both

WayEdges(way, nm, ids) == WayEdgesFrom(way, 1, nm, ids)

\* Lines 119-137: for (const way of ways), from way k on.
RECURSIVE RoadEdgesFrom(_, _, _, _)
RoadEdgesFrom(ws, k, nm, ids) ==
    IF k > Len(ws) THEN <<>>
    ELSE WayEdges(ws[k], nm, ids) \o RoadEdgesFrom(ws, k + 1, nm, ids)

RoadEdges(ws, nm, ids) == RoadEdgesFrom(ws, 1, nm, ids)

\* The value fetchRoadGraph resolves to for a response with these elements.
BuildRoadGraph(els) ==
    LET parsed == Parse(els)
        ns     == RoadNodes(parsed.nodeMap)
        es     == RoadEdges(parsed.ways, parsed.nodeMap, RoadIdToIndex(parsed.nodeMap))
    IN  [nodes |-> ns, edges |-> es, adjacency |-> BuildAdjacency(ns, es)]

\* function bboxAreaDeg2(b), in units of 0.0001 square degrees.
BboxAreaDeg2(b) ==
    (IF b.ne.lat - b.sw.lat > 0 THEN b.ne.lat - b.sw.lat ELSE 0)
      * (IF b.ne.lng - b.sw.lng > 0 THEN b.ne.lng - b.sw.lng ELSE 0)

\* maxAreaDeg2 = 0.0025, in units of 0.0001 square degrees.
DefaultMaxAreaDeg2 == 25

AreaTooLarge ==
    "Selected map area is too large for a client-side Overpass query. Please zoom in."

OverpassError == "Overpass API error"

\* A guard that also rejects an area equal to the limit.
TooLargeInclusive(b, maxAreaDeg2) == BboxAreaDeg2(b) >= maxAreaDeg2

\* if (bboxAreaDeg2(bounds) > maxAreaDeg2)
TooLarge(b, maxAreaDeg2) == BboxAreaDeg2(b) > maxAreaDeg2

\* Line 59-61: the guard throws.
RoadGuardThrow ==
    /\ pc = "road.guard"
    /\ TooLarge(call.bounds, call.maxAreaDeg2)
    /\ error' = AreaTooLarge
    /\ pc' = "thrown"
    /\ UNCHANGED <<call, requests, nodeMap, ways, idToIndex, nodes, edges, graph>>
    /\ UNCHANGED dvars
    /\ UNCHANGED nvars

\* Line 59: the guard lets the call through.
RoadGuardPass ==
    /\ pc = "road.guard"
    /\ ~TooLarge(call.bounds, call.maxAreaDeg2)
    /\ pc' = "road.fetch"
    /\ UNCHANGED bvars
    /\ UNCHANGED dvars
    /\ UNCHANGED nvars

\* Lines 77-84: the request is sent and answered with the elements.
RoadFetch ==
    /\ pc = "road.fetch"
    /\ call.ok
    /\ requests' = requests + 1
    /\ pc' = "road.parse"
    /\ UNCHANGED <<call, error, nodeMap, ways, idToIndex, nodes, edges, graph>>
    /\ UNCHANGED dvars
    /\ UNCHANGED nvars

\* Lines 77-83: the request is sent and answered with a status that is not ok.
RoadFetchFails ==
    /\ pc = "road.fetch"
    /\ ~call.ok
    /\ requests' = requests + 1
    /\ error' = OverpassError
    /\ pc' = "thrown"
    /\ UNCHANGED <<call, nodeMap, ways, idToIndex, nodes, edges, graph>>
    /\ UNCHANGED dvars
    /\ UNCHANGED nvars

\* Lines 86-96: parse nodes and ways.
RoadParse ==
    /\ pc = "road.parse"
    /\ nodeMap' = Parse(call.elements).nodeMap
    /\ ways' = Parse(call.elements).ways
    /\ pc' = "road.nodes"
    /\ UNCHANGED <<call, requests, error, idToIndex, nodes, edges, graph>>
    /\ UNCHANGED dvars
    /\ UNCHANGED nvars

\* Lines 109-116: build the node list and the id mapping.
RoadBuildNodes ==
    /\ pc = "road.nodes"
    /\ nodes' = RoadNodes(nodeMap)
    /\ idToIndex' = RoadIdToIndex(nodeMap)
    /\ pc' = "road.edges"
    /\ UNCHANGED <<call, requests, error, nodeMap, ways, edges, graph>>
    /\ UNCHANGED dvars
    /\ UNCHANGED nvars

\* Lines 118-137: build the edges from the way sequences.
RoadBuildEdges ==
    /\ pc = "road.edges"
    /\ edges' = RoadEdges(ways, nodeMap, idToIndex)
    /\ pc' = "road.adjacency"
    /\ UNCHANGED <<call, requests, error, nodeMap, ways, idToIndex, nodes, graph>>
    /\ UNCHANGED dvars
    /\ UNCHANGED nvars

\* Lines 139-144: the adjacency list and the return.
RoadReturn ==
    /\ pc = "road.adjacency"
    /\ graph' = [nodes |-> nodes, edges |-> edges,
                 adjacency |-> BuildAdjacency(nodes, edges)]
    /\ pc' = "built"
    /\ UNCHANGED <<call, requests, error, nodeMap, ways, idToIndex, nodes, edges>>
    /\ UNCHANGED dvars
    /\ UNCHANGED nvars

----------------------------------------------------------------------------
\* The nearest-node query and the map click that uses it.

\* A scan in which a node at the distance of the best so far replaces it.
RECURSIVE ScanNearestLastWins(_, _, _, _, _)
ScanNearestLastWins(latlng, ns, i, bestId, best) ==
    IF i > Len(ns) THEN bestId
    ELSE LET d == Haversine(latlng, [lat |-> ns[i].lat, lng |-> ns[i].lng])
         IN  IF ~Lt(best, d)
             THEN ScanNearestLastWins(latlng, ns, i + 1, ns[i].id, d)
             ELSE ScanNearestLastWins(latlng, ns, i + 1, bestId, best)

\* A scan that sets bestId and forgets to set best.
RECURSIVE ScanNearestKeepingBest(_, _, _, _, _)
ScanNearestKeepingBest(latlng, ns, i, bestId, best) ==
    IF i > Len(ns) THEN bestId
    ELSE LET d == Haversine(latlng, [lat |-> ns[i].lat, lng |-> ns[i].lng])
         IN  IF Lt(d, best)
             THEN ScanNearestKeepingBest(latlng, ns, i + 1, ns[i].id, best)
             ELSE ScanNearestKeepingBest(latlng, ns, i + 1, bestId, best)

\* for (const n of nodes) { d = haversine(...); if (d < best) { best = d; bestId = n.id; } }
\* from node i on, with (bestId, best) as they stand.
RECURSIVE ScanNearest(_, _, _, _, _)
ScanNearest(latlng, ns, i, bestId, best) ==
    IF i > Len(ns) THEN bestId
    ELSE LET d == Haversine(latlng, [lat |-> ns[i].lat, lng |-> ns[i].lng])
         IN  IF Lt(d, best)
             THEN ScanNearest(latlng, ns, i + 1, ns[i].id, d)
             ELSE ScanNearest(latlng, ns, i + 1, bestId, best)

\* function nearestNodeId(latlng, nodes)
NearestNodeId(latlng, ns) == ScanNearest(latlng, ns, 1, Null, Infinity)

\* currentGraph.nodes.find(n => n.id === id) finds a node.
Finds(ns, id) == \E i \in DOMAIN ns : ns[i].id = id

\* No call has returned yet.
NoEarlierCall == [start |-> Null, goal |-> Null,
                  opts |-> [avoidUnpaved |-> FALSE, unpavedFactor |-> 0],
                  result |-> [distance |-> Undefined, path |-> <<>>,
                              visitedCount |-> 0]]

\* The page holds at most MaxLoads road loads that have not settled.
MaxLoads == 2

\* Lines 137 and 271: no route line, no load, no controller; the boxes
\* unchecked and the map centred at 0.
ControlsIdle ==
    /\ routeLine = <<>>
    /\ useRoads = FALSE
    /\ avoidUnpaved = FALSE
    /\ abortCtrl = 0
    /\ loads = [k \in 1..MaxLoads |-> "free"]
    /\ mapCenter = 0
    /\ handler = "none"
    /\ earlier = NoEarlierCall

\* The page before any click: no graph installed, nothing selected.
PageIdle ==
    /\ clicked = [lat |-> 0, lng |-> 0]
    /\ currentGraph = NoGraph
    /\ nid = Null
    /\ startId = Null
    /\ endId = Null
    /\ ControlsIdle

\* Lines 306-308: const nid = nearestNodeId(clicked, currentGraph.nodes).
ClickNearest ==
    /\ pc = "click"
    /\ nid' = NearestNodeId(clicked, currentGraph.nodes)
    /\ pc' = "click.select"
    /\ UNCHANGED <<clicked, currentGraph, startId, endId>>
    /\ UNCHANGED uvars
    /\ UNCHANGED dvars
    /\ UNCHANGED bvars

\* Lines 315-321 with nothing selected: startId = nid, the marker is placed
\* at the node found, and the handler returns.
ClickSetStart ==
    /\ pc = "click.select"
    /\ startId = Null
    /\ Finds(currentGraph.nodes, nid)
    /\ startId' = nid
    /\ pc' = "idle"
    /\ UNCHANGED <<clicked, currentGraph, nid, endId>>
    /\ UNCHANGED uvars
    /\ UNCHANGED dvars
    /\ UNCHANGED bvars

\* Lines 315-318 with nothing selected and no node found: startId = nid, and
\* node.lat throws a TypeError, node being undefined.
ClickSetStartThrows ==
    /\ pc = "click.select"
    /\ startId = Null
    /\ ~Finds(currentGraph.nodes, nid)
    /\ startId' = nid
    /\ pc' = "thrown"
    /\ UNCHANGED <<clicked, currentGraph, nid, endId>>
    /\ UNCHANGED uvars
    /\ UNCHANGED dvars
    /\ UNCHANGED bvars

----------------------------------------------------------------------------
\* The builder calls.

\* No query is running.
EngineIdle ==
    /\ adjacency = [keys |-> <<>>, at |-> EmptyMap]
    /\ start = Null
    /\ goal = Null
    /\ opts = [avoidUnpaved |-> FALSE, unpavedFactor |-> 1]
    /\ dist = EmptyMap
    /\ prev = EmptyMap
    /\ visited = {}
    /\ queue = <<>>
    /\ path = <<>>
    /\ cursor = UndefinedId
    /\ extracted = <<>>
    /\ result = NoResult

GridCalls ==
    {[fn |-> "buildGridGraph", center |-> [lat |-> la, lng |-> lo],
      rows |-> r, cols |-> c, delta |-> 2 * d] :
        la \in 0..MaxCenter, lo \in 0..MaxCenter,
        r \in 1..MaxRows, c \in 1..MaxCols, d \in 1..MaxSpacing}

NoTags == [surface |-> "", tracktype |-> "", highway |-> "", oneway |-> ""]

\* The tag sets of the ways of a response.
WayTags ==
    {NoTags,
     [NoTags EXCEPT !.surface = "gravel", !.oneway = "yes"],
     [NoTags EXCEPT !.surface = "Asphalt"]}

\* The tag values a way may carry, "" for an absent tag.
SurfaceValues ==
    UnpavedSurfaces \cup {"", "asphalt", "paved", "concrete", "Gravel", "Asphalt"}

TracktypeValues == {"", "grade1", "grade2", "grade3", "grade4", "grade5", "GRADE3", "Grade1"}

HighwayValues == {"", "track", "Track", "residential"}

TaggedWays ==
    {[surface |-> sf, tracktype |-> tt, highway |-> hw, oneway |-> ""] :
       sf \in SurfaceValues, tt \in TracktypeValues, hw \in HighwayValues}

NodeElement(i, la, lo) ==
    [type |-> "node", id |-> i, lat |-> la, lon |-> lo, nodes |-> <<>>, tags |-> NoTags]

WayElement(ns, tags) ==
    [type |-> "way", id |-> 0, lat |-> 0, lon |-> 0, nodes |-> ns, tags |-> tags]

\* The node elements of the osm ids 1 .. k, id i lying at (i div 2, i mod 2).
NodeElements(k) == [i \in 1..k |-> NodeElement(i, i \div 2, i % 2)]

WayElements ==
    {WayElement(ns, t) :
       ns \in UNION {[1..n -> 1..MaxOsmId] : n \in 0..MaxWayLen}, t \in WayTags}

\* A response: the nodes 1 .. k, then at most MaxWays ways, then possibly node
\* 1 once more, now at the place of node 2.
ResponseElements ==
    {NodeElements(k) \o ws \o again :
       k \in 0..MaxOsmId,
       ws \in UNION {[1..n -> WayElements] : n \in 0..MaxWays},
       again \in {<<>>, <<NodeElement(1, 1, 0)>>}}

\* The bounding boxes: the south-west corner at (0, 0), the north-east one
\* anywhere in -1 .. MaxSpan.
BoundingBoxes ==
    {[sw |-> [lat |-> 0, lng |-> 0], ne |-> [lat |-> la, lng |-> lo]] :
       la \in -1..MaxSpan, lo \in -1..MaxSpan}

\* A box of area 1, which every limit of the model admits.
SmallBox == [sw |-> [lat |-> 0, lng |-> 0], ne |-> [lat |-> 1, lng |-> 1]]

\* options.maxAreaDeg2: the default and a caller's own limit.
MaxAreas == {DefaultMaxAreaDeg2, 6}

\* The calls of fetchRoadGraph with every response over a small box.
ResponseCalls ==
    {[fn |-> "fetchRoadGraph", bounds |-> SmallBox,
      maxAreaDeg2 |-> DefaultMaxAreaDeg2, ok |-> TRUE, elements |-> els] :
        els \in ResponseElements}

\* The calls of fetchRoadGraph with every box and limit and a response of
\* one way, answered ok or not, and those with a response of one way with
\* every combination of tag values.
RoadCalls ==
    {[fn |-> "fetchRoadGraph", bounds |-> b, maxAreaDeg2 |-> mx, ok |-> ok,
      elements |-> NodeElements(2) \o <<WayElement(<<1, 2>>, NoTags)>>] :
        b \in BoundingBoxes, mx \in MaxAreas, ok \in BOOLEAN}
    \cup
    {[fn |-> "fetchRoadGraph", bounds |-> SmallBox,
      maxAreaDeg2 |-> DefaultMaxAreaDeg2, ok |-> TRUE,
      elements |-> NodeElements(2) \o <<WayElement(<<1, 2>>, t)>>] :
        t \in TaggedWays}

BuildInit ==
    /\ EngineIdle
    /\ PageIdle
    /\ \/ call \in GridCalls /\ pc = "grid.nodes"
       \/ call \in ResponseCalls /\ pc = "road.guard"
       \/ call \in RoadCalls /\ pc = "road.guard"
    /\ requests = 0
    /\ error = ""
    /\ nodeMap = EmptyJsMap
    /\ ways = <<>>
    /\ idToIndex = EmptyMap
    /\ nodes = <<>>
    /\ edges = <<>>
    /\ graph = NoGraph

BuildNext ==
    \/ GridBuildNodes
    \/ GridBuildEdges
    \/ GridReturn
    \/ RoadGuardThrow
    \/ RoadGuardPass
    \/ RoadFetch
    \/ RoadFetchFails
    \/ RoadParse
    \/ RoadBuildNodes
    \/ RoadBuildEdges
    \/ RoadReturn

BuildSpec == BuildInit /\ [][BuildNext]_vars

----------------------------------------------------------------------------
\* The graphs and queries the engine is run on.

\* The ids "0" .. n - 1, in order.
NodeIds(n) == [i \in 1..n |-> StringOf(i - 1)]

NodeList(n) == [i \in 1..n |-> [id |-> NodeIds(n)[i]]]

\* An edge record as the builders push it.
Edge(from, to, weight, unpaved) ==
    [from    |-> from,
     to      |-> to,
     weight  |-> weight,
     unpaved |-> unpaved,
     surface |-> IF unpaved THEN "unpaved" ELSE "paved"]

\* The ordered pairs of distinct ids among the first n, as a sequence.
RECURSIVE PairsFrom(_, _)
PairsFrom(n, k) ==
    IF k >= n * n THEN <<>>
    ELSE LET a == k \div n
             b == k % n
         IN  (IF a = b THEN <<>> ELSE << <<StringOf(a), StringOf(b)>> >>)
             \o PairsFrom(n, k + 1)

Pairs(n) == PairsFrom(n, 0)

\* Every edge between two of the first n ids with a weight in 0 .. MaxWeight
\* and either surface, as a sequence: pair by pair, heavier edges first.
CandidateEdges(n) ==
    LET ps == Pairs(n)
        a  == 2 * (MaxWeight + 1)
    IN  [k \in 1..(Len(ps) * a) |->
           LET p == ps[((k - 1) \div a) + 1]
               r == (k - 1) % a
           IN  Edge(p[1], p[2], MaxWeight - (r \div 2), r % 2 = 1)]

\* The strictly increasing index sequences of length at most k over lo .. hi.
RECURSIVE Increasing(_, _, _)
Increasing(lo, hi, k) ==
    IF k = 0 THEN {<<>>}
    ELSE {<<>>} \cup
         UNION {{<<i>> \o t : t \in Increasing(i + 1, hi, k - 1)} : i \in lo..hi}

\* The edge lists of at most MaxEdges candidate edges (parallel edges
\* included), each in candidate order.
EdgeLists(n) ==
    LET cs == CandidateEdges(n)
    IN  {[i \in DOMAIN ix |-> cs[ix[i]]] : ix \in Increasing(1, Len(cs), MaxEdges)}

\* The graph of the cost-policy example: "0" and "2" are joined by one
\* unpaved edge of weight 100 and by the paved route "0" - "1" - "2" of
\* weight 100 + 150 = 250; every connection is two opposing edges.
PolicyExampleEdges ==
    <<Edge("0", "2", 100, TRUE),  Edge("2", "0", 100, TRUE),
      Edge("0", "1", 100, FALSE), Edge("1", "0", 100, FALSE),
      Edge("1", "2", 150, FALSE), Edge("2", "1", 150, FALSE)>>

PolicyExampleAdjacency ==
    BuildAdjacency(<<[id |-> "0"], [id |-> "1"], [id |-> "2"]>>, PolicyExampleEdges)

\* The adjacency lists of the 3 x 3 grids buildGridGraph builds, for every
\* latitude of the centre and every spacing of the model.
GridAdjacencies ==
    {BuildGridGraph([lat |-> la, lng |-> 0], 3, 3, 2 * d).adjacency :
       la \in 0..MaxCenter, d \in 1..MaxSpacing}

\* An id that is no key of any adjacency.
UnknownId == "nowhere"

\* const { avoidUnpaved = false, unpavedFactor = 3 } = opts;
DefaultUnpavedFactor == 3

OptsSet ==
    {[avoidUnpaved |-> FALSE, unpavedFactor |-> DefaultUnpavedFactor],
     [avoidUnpaved |-> TRUE,  unpavedFactor |-> DefaultUnpavedFactor],
     [avoidUnpaved |-> TRUE,  unpavedFactor |-> 1]}

\* The state at the entry of the loop of a call on the adjacency adj.
DijkstraCall(adj) ==
    \E s \in Range(ObjectKeys(adj)) \cup {UnknownId} :
      \E g \in Range(ObjectKeys(adj)) \cup {UnknownId} :
        \E o \in OptsSet :
          /\ adjacency = adj
          /\ start = s
          /\ goal = g
          /\ opts = o
          /\ dist = InitialDist(adj, s)
          /\ prev = EmptyMap
          /\ visited = {}
          /\ queue = ObjectKeys(adj)
          /\ path = <<>>
          /\ cursor = UndefinedId
          /\ extracted = <<>>
          /\ result = NoResult
          /\ pc = "loop"
          /\ BuilderIdle
          /\ PageIdle

\* The calls: on every graph of at most MaxNodes nodes and at most MaxEdges
\* candidate edges, on the graph of the cost-policy example and on the
\* 3 x 3 grids.
DijkstraInit ==
    \/ \E n \in 0..MaxNodes : \E es \in EdgeLists(n) :
          DijkstraCall(BuildAdjacency(NodeList(n), es))
    \/ DijkstraCall(PolicyExampleAdjacency)
    \/ \E adj \in GridAdjacencies : DijkstraCall(adj)

DijkstraNext ==
    \/ LoopExitEmpty
    \/ LoopBreakUnreachable
    \/ LoopBreakGoal
    \/ LoopRelax
    \/ ReconstructBegin
    \/ WalkStep
    \/ WalkEnd
    \/ Return

DijkstraSpec == DijkstraInit /\ [][DijkstraNext]_vars

\* The calls that are followed to their end: made as the page makes them
\* with 'Avoid unpaved' checked, { avoidUnpaved: true, unpavedFactor: 3 }, on
\* every graph of at most MaxNodes nodes and at most MaxRunEdges candidate
\* edges and on the graph of the cost-policy example.
DijkstraRunInit ==
    /\ \/ \E n \in 0..MaxNodes : \E es \in EdgeLists(n) :
             /\ Len(es) <= MaxRunEdges
             /\ DijkstraCall(BuildAdjacency(NodeList(n), es))
       \/ DijkstraCall(PolicyExampleAdjacency)
    /\ opts = [avoidUnpaved |-> TRUE, unpavedFactor |-> DefaultUnpavedFactor]

\* The function runs on without being suspended: it has no await and no
\* callback, so a step that can be taken is taken.
DijkstraRunSpec ==
    DijkstraRunInit /\ [][DijkstraNext]_vars /\ WF_vars(DijkstraNext)

----------------------------------------------------------------------------
\* Calls one after another on the same graph.

\* The graphs of the repeated calls have at most MaxRepeatNodes nodes.
MaxRepeatNodes == 2

\* A further call whose visited set is the one the call before left behind,
\* as it would be were the Set allocated once outside the function.
DijkstraAgainKeepingVisited ==
    /\ pc = "done"
    /\ \E s \in Range(ObjectKeys(adjacency)) \cup {UnknownId} :
         \E g \in Range(ObjectKeys(adjacency)) \cup {UnknownId} :
           \E o \in OptsSet :
             /\ start' = s
             /\ goal' = g
             /\ opts' = o
             /\ dist' = InitialDist(adjacency, s)
    /\ prev' = EmptyMap
    /\ queue' = ObjectKeys(adjacency)
    /\ path' = <<>>
    /\ cursor' = UndefinedId
    /\ extracted' = <<>>
    /\ result' = NoResult
    /\ \/ earlier' = [start |-> start, goal |-> goal, opts |-> opts,
                      result |-> result]
       \/ earlier' = earlier
    /\ pc' = "loop"
    /\ UNCHANGED <<adjacency, visited>>
    /\ UNCHANGED bvars
    /\ UNCHANGED <<clicked, currentGraph, nid, startId, endId, routeLine,
                   useRoads, avoidUnpaved, abortCtrl, loads, mapCenter, handler>>

\* The caller calls again on the same adjacency object once a call has
\* returned: lines 7-18 run anew, dist, prev, visited, nodes and queue are
\* allocated by this call and nothing of the call before is read.  The caller
\* keeps the result it was handed, or the one it kept before.
DijkstraAgain ==
    /\ pc = "done"
    /\ \E s \in Range(ObjectKeys(adjacency)) \cup {UnknownId} :
         \E g \in Range(ObjectKeys(adjacency)) \cup {UnknownId} :
           \E o \in OptsSet :
             /\ start' = s
             /\ goal' = g
             /\ opts' = o
             /\ dist' = InitialDist(adjacency, s)
    /\ prev' = EmptyMap
    /\ visited' = {}
    /\ queue' = ObjectKeys(adjacency)
    /\ path' = <<>>
    /\ cursor' = UndefinedId
    /\ extracted' = <<>>
    /\ result' = NoResult
    /\ \/ earlier' = [start |-> start, goal |-> goal, opts |-> opts,
                      result |-> result]
       \/ earlier' = earlier
    /\ pc' = "loop"
    /\ UNCHANGED adjacency
    /\ UNCHANGED bvars
    /\ UNCHANGED <<clicked, currentGraph, nid, startId, endId, routeLine,
                   useRoads, avoidUnpaved, abortCtrl, loads, mapCenter, handler>>

\* The first calls: on every graph of at most MaxRepeatNodes nodes and at
\* most MaxRunEdges candidate edges and on the graph of the cost-policy
\* example.
DijkstraRepeatInit ==
    \/ \E n \in 0..MaxRepeatNodes : \E es \in EdgeLists(n) :
          /\ Len(es) <= MaxRunEdges
          /\ DijkstraCall(BuildAdjacency(NodeList(n), es))
    \/ DijkstraCall(PolicyExampleAdjacency)

DijkstraRepeatNext ==
    \/ DijkstraNext
    \/ DijkstraAgain

DijkstraRepeatSpec == DijkstraRepeatInit /\ [][DijkstraRepeatNext]_vars

----------------------------------------------------------------------------
\* The clicks.

\* The places a node or a click may lie at.
Places == {[lat |-> la, lng |-> lo] : la \in 0..MaxLat, lo \in 0..1}

\* The node lists: at most MaxNear nodes with the ids "0", "1", .. in any
\* order, each at any place.
NearNodeLists ==
    UNION {{[i \in 1..n |-> [id |-> StringOf(f[i] - 1), lat |-> pl[i].lat,
                                                         lng |-> pl[i].lng]] :
              f \in Permutations(1..n), pl \in [1..n -> Places]} :
             n \in 0..MaxNear}

ClickInit ==
    /\ EngineIdle
    /\ BuilderIdle
    /\ clicked \in Places
    /\ \E ns \in NearNodeLists :
         currentGraph = [nodes |-> ns, edges |-> <<>>,
                         adjacency |-> BuildAdjacency(ns, <<>>)]
    /\ nid = Null
    /\ startId = Null
    /\ endId = Null
    /\ ControlsIdle
    /\ pc = "click"

ClickNext ==
    \/ ClickNearest
    \/ ClickSetStart
    \/ ClickSetStartThrows

ClickSpec == ClickInit /\ [][ClickNext]_vars

----------------------------------------------------------------------------
\* The page: its handlers, run to completion one at a time, and the road
\* loads they await.

\* The side of the page's grid, the rows and cols of lines 124, 157 and 241.
MaxPageSide == 2

\* The map centre has a latitude in 0 .. MaxPageCenter.
MaxPageCenter == 1

\* Where Leaflet puts the centre of the map: fitBounds and the places of the
\* search results are not computed by this repository.
Centers == 0..MaxPageCenter

\* buildGridGraph(map.getCenter(), 7, 7, 0.0018), on the scale of the model.
PageGrid(c) == BuildGridGraph([lat |-> c, lng |-> 0], MaxPageSide, MaxPageSide, 2)

\* The points a click may land on.
PageClicks == {[lat |-> la, lng |-> lo] : la \in {-1, 2}, lo \in {-1, 1}}

\* The elements of the responses a road load may receive: nothing, or two
\* nodes joined by a gravel way.
PageResponses ==
    {<<>>,
     NodeElements(2) \o <<WayElement(<<1, 2>>, [NoTags EXCEPT !.surface = "gravel"])>>}

\* The page as app.js leaves it once loaded: the grid installed (line 124),
\* nothing selected (lines 267-271), no load started (line 137).
PageInit ==
    /\ EngineIdle
    /\ BuilderIdle
    /\ clicked = [lat |-> 0, lng |-> 0]
    /\ nid = Null
    /\ mapCenter \in Centers
    /\ currentGraph = PageGrid(mapCenter)
    /\ startId = Null
    /\ endId = Null
    /\ routeLine = <<>>
    /\ useRoads = FALSE
    /\ avoidUnpaved \in BOOLEAN
    /\ abortCtrl = 0
    /\ loads = [k \in 1..MaxLoads |-> "free"]
    /\ handler = "none"
    /\ earlier = NoEarlierCall
    /\ pc = "idle"

\* dijkstra(currentGraph.adjacency, startId, endId, { avoidUnpaved,
\* unpavedFactor: 3 }) is entered for the handler h: lines 7-18.
CallDijkstra(s, g, avoid, h) ==
    /\ adjacency' = currentGraph.adjacency
    /\ start' = s
    /\ goal' = g
    /\ opts' = [avoidUnpaved |-> avoid, unpavedFactor |-> DefaultUnpavedFactor]
    /\ dist' = InitialDist(currentGraph.adjacency, s)
    /\ prev' = EmptyMap
    /\ visited' = {}
    /\ queue' = ObjectKeys(currentGraph.adjacency)
    /\ path' = <<>>
    /\ cursor' = UndefinedId
    /\ extracted' = <<>>
    /\ result' = NoResult
    /\ handler' = h
    /\ pc' = "loop"

\* The handler has taken { distance, path } and the locals of the call are
\* gone.
DijkstraLeft ==
    /\ adjacency' = [keys |-> <<>>, at |-> EmptyMap]
    /\ start' = Null
    /\ goal' = Null
    /\ opts' = [avoidUnpaved |-> FALSE, unpavedFactor |-> 1]
    /\ dist' = EmptyMap
    /\ prev' = EmptyMap
    /\ visited' = {}
    /\ queue' = <<>>
    /\ path' = <<>>
    /\ cursor' = UndefinedId
    /\ extracted' = <<>>
    /\ result' = NoResult
    /\ handler' = "none"
    /\ pc' = "idle"

\* path.map(id => currentGraph.nodes.find(x => x.id === id)) finds every id.
FindsAll(ns, p) == \A i \in DOMAIN p : Finds(ns, p[i])

\* A reset that leaves the route line on the map.
ResetClickKeepingLine ==
    /\ pc = "idle"
    /\ startId' = Null
    /\ endId' = Null
    /\ UNCHANGED <<clicked, currentGraph, nid, routeLine, useRoads, avoidUnpaved,
                   abortCtrl, loads, mapCenter, handler, earlier>>
    /\ UNCHANGED dvars
    /\ UNCHANGED bvars
    /\ UNCHANGED pc

\* resetBtn click, resetRoute(): lines 281-288.
ResetClick ==
    /\ pc = "idle"
    /\ startId' = Null
    /\ endId' = Null
    /\ routeLine' = <<>>
    /\ UNCHANGED <<clicked, currentGraph, nid, useRoads, avoidUnpaved,
                   abortCtrl, loads, mapCenter, handler, earlier>>
    /\ UNCHANGED dvars
    /\ UNCHANGED bvars
    /\ UNCHANGED pc

\* Lines 311-313: the selection and the route line once a completed route
\* has been reset, as they stand otherwise.
AfterRestart ==
    IF startId # Null /\ endId # Null
    THEN [startId |-> Null, endId |-> Null, routeLine |-> <<>>]
    ELSE [startId |-> startId, endId |-> endId, routeLine |-> routeLine]

\* A map click with no node to find (lines 306-318 or 306-327): the id is
\* stored and node.lat throws a TypeError.
MapClickThrows ==
    /\ pc = "idle"
    /\ \E latlng \in PageClicks :
         LET n == NearestNodeId(latlng, currentGraph.nodes)
             r == AfterRestart
         IN  /\ ~Finds(currentGraph.nodes, n)
             /\ startId' = IF r.startId = Null THEN n ELSE r.startId
             /\ endId' = IF r.startId # Null /\ r.endId = Null THEN n ELSE r.endId
             /\ routeLine' = r.routeLine
    /\ UNCHANGED <<clicked, currentGraph, nid, useRoads, avoidUnpaved,
                   abortCtrl, loads, mapCenter, handler, earlier>>
    /\ UNCHANGED dvars
    /\ UNCHANGED bvars
    /\ UNCHANGED pc

\* A map click with no start selected once lines 311-313 have run:
\* lines 306-321, startId = nid and the handler returns.
MapClickStart ==
    /\ pc = "idle"
    /\ \E latlng \in PageClicks :
         LET n == NearestNodeId(latlng, currentGraph.nodes)
             r == AfterRestart
         IN  /\ Finds(currentGraph.nodes, n)
             /\ r.startId = Null
             /\ startId' = n
             /\ endId' = r.endId
             /\ routeLine' = r.routeLine
    /\ UNCHANGED <<clicked, currentGraph, nid, useRoads, avoidUnpaved,
                   abortCtrl, loads, mapCenter, handler, earlier>>
    /\ UNCHANGED dvars
    /\ UNCHANGED bvars
    /\ UNCHANGED pc

\* A map click with a start selected: lines 306-335, endId = nid where no
\* destination is set, and dijkstra is called.
MapClickEnd ==
    /\ pc = "idle"
    /\ \E latlng \in PageClicks :
         LET n == NearestNodeId(latlng, currentGraph.nodes)
             r == AfterRestart
             e == IF r.endId = Null THEN n ELSE r.endId
         IN  /\ Finds(currentGraph.nodes, n)
             /\ r.startId # Null
             /\ endId' = e
             /\ routeLine' = r.routeLine
             /\ CallDijkstra(r.startId, e, avoidUnpaved, "click")
    /\ UNCHANGED <<clicked, currentGraph, nid, startId, useRoads, avoidUnpaved,
                   abortCtrl, loads, mapCenter, earlier>>
    /\ UNCHANGED bvars

\* Lines 336-351 once dijkstra has returned to the click handler: no route
\* (the line is removed) or the route is drawn and the map fitted to it.
ClickRouted ==
    /\ pc = "done"
    /\ handler = "click"
    /\ IF result.path = <<>> \/ result.distance \in {Infinity, Undefined}
       THEN /\ routeLine' = <<>>
            /\ UNCHANGED mapCenter
       ELSE IF FindsAll(currentGraph.nodes, result.path)
            THEN /\ routeLine' = result.path
                 /\ mapCenter' \in Centers
            ELSE UNCHANGED <<routeLine, mapCenter>>
    /\ DijkstraLeft
    /\ UNCHANGED <<clicked, currentGraph, nid, startId, endId, useRoads,
                   avoidUnpaved, abortCtrl, loads, earlier>>
    /\ UNCHANGED bvars

\* avoidUnpaved change with no completed selection: lines 163-166.
AvoidUnpavedChange ==
    /\ pc = "idle"
    /\ ~(startId # Null /\ endId # Null)
    /\ avoidUnpaved' = ~avoidUnpaved
    /\ UNCHANGED <<clicked, currentGraph, nid, startId, endId, routeLine,
                   useRoads, abortCtrl, loads, mapCenter, handler, earlier>>
    /\ UNCHANGED dvars
    /\ UNCHANGED bvars
    /\ UNCHANGED pc

\* avoidUnpaved change with a start and a destination: lines 163-171, the
\* line is removed and dijkstra is called with the new setting.
AvoidUnpavedRecompute ==
    /\ pc = "idle"
    /\ startId # Null
    /\ endId # Null
    /\ avoidUnpaved' = ~avoidUnpaved
    /\ routeLine' = <<>>
    /\ CallDijkstra(startId, endId, ~avoidUnpaved, "avoidUnpaved")
    /\ UNCHANGED <<clicked, currentGraph, nid, startId, endId, useRoads,
                   abortCtrl, loads, mapCenter, earlier>>
    /\ UNCHANGED bvars

\* Lines 172-180 once dijkstra has returned to the avoidUnpaved handler: a
\* path that is not empty is drawn; n.lat throws where an id is not found.
AvoidRouted ==
    /\ pc = "done"
    /\ handler = "avoidUnpaved"
    /\ IF result.path # <<>> /\ FindsAll(currentGraph.nodes, result.path)
       THEN /\ routeLine' = result.path
            /\ mapCenter' \in Centers
       ELSE UNCHANGED <<routeLine, mapCenter>>
    /\ DijkstraLeft
    /\ UNCHANGED <<clicked, currentGraph, nid, startId, endId, useRoads,
                   avoidUnpaved, abortCtrl, loads, earlier>>
    /\ UNCHANGED bvars

\* The first slot that holds no load.
FreeSlot == CHOOSE k \in 1..MaxLoads :
              /\ loads[k] = "free"
              /\ \A j \in 1..(k - 1) : loads[j] # "free"

\* Lines 143-145: abortCtrl.abort() on the controller held, a new
\* controller, and fetchRoadGraph awaited with its signal.
StartLoad ==
    /\ \E k \in 1..MaxLoads : loads[k] = "free"
    /\ loads' = [k \in 1..MaxLoads |->
                   IF k = FreeSlot THEN "pending"
                   ELSE IF k = abortCtrl /\ loads[k] = "pending" THEN "aborted"
                   ELSE loads[k]]
    /\ abortCtrl' = FreeSlot

\* useRoads change, the box now checked: lines 139-145, up to the await.
UseRoadsOn ==
    /\ pc = "idle"
    /\ useRoads = FALSE
    /\ useRoads' = TRUE
    /\ StartLoad
    /\ UNCHANGED <<clicked, currentGraph, nid, startId, endId, routeLine,
                   avoidUnpaved, mapCenter, handler, earlier>>
    /\ UNCHANGED dvars
    /\ UNCHANGED bvars
    /\ UNCHANGED pc

\* useRoads change, the box now unchecked: lines 156-158.
UseRoadsOff ==
    /\ pc = "idle"
    /\ useRoads = TRUE
    /\ useRoads' = FALSE
    /\ currentGraph' = PageGrid(mapCenter)
    /\ UNCHANGED <<clicked, nid, startId, endId, routeLine, avoidUnpaved,
                   abortCtrl, loads, mapCenter, handler, earlier>>
    /\ UNCHANGED dvars
    /\ UNCHANGED bvars
    /\ UNCHANGED pc

\* selectSearchResult with the box unchecked: lines 230-237 and 241.
SelectSearchResultGrid ==
    /\ pc = "idle"
    /\ useRoads = FALSE
    /\ \E c \in Centers :
         /\ mapCenter' = c
         /\ currentGraph' = PageGrid(c)
    /\ startId' = Null
    /\ endId' = Null
    /\ routeLine' = <<>>
    /\ UNCHANGED <<clicked, nid, useRoads, avoidUnpaved, abortCtrl, loads,
                   handler, earlier>>
    /\ UNCHANGED dvars
    /\ UNCHANGED bvars
    /\ UNCHANGED pc

\* selectSearchResult with the box checked: lines 230-239, the change event
\* is dispatched and its handler runs lines 139-145 up to the await.
SelectSearchResultRoads ==
    /\ pc = "idle"
    /\ useRoads = TRUE
    /\ mapCenter' \in Centers
    /\ startId' = Null
    /\ endId' = Null
    /\ routeLine' = <<>>
    /\ StartLoad
    /\ UNCHANGED <<clicked, currentGraph, nid, useRoads, avoidUnpaved, handler,
                   earlier>>
    /\ UNCHANGED dvars
    /\ UNCHANGED bvars
    /\ UNCHANGED pc

\* A load whose signal was not aborted resolves: lines 146-150, the graph
\* built from the response is installed and the map fitted to its nodes.
LoadResolves ==
    /\ pc = "idle"
    /\ \E k \in 1..MaxLoads :
         /\ loads[k] = "pending"
         /\ loads' = [loads EXCEPT ![k] = "free"]
    /\ \E els \in PageResponses :
         /\ currentGraph' = BuildRoadGraph(els)
         /\ IF els # <<>> THEN mapCenter' \in Centers ELSE UNCHANGED mapCenter
    /\ UNCHANGED <<clicked, nid, startId, endId, routeLine, useRoads,
                   avoidUnpaved, abortCtrl, handler, earlier>>
    /\ UNCHANGED dvars
    /\ UNCHANGED bvars
    /\ UNCHANGED pc

\* A load rejects, its signal aborted or not (regions.js lines 59-61, 77-84):
\* lines 151-155, the box is unchecked.
LoadFails ==
    /\ pc = "idle"
    /\ \E k \in 1..MaxLoads :
         /\ loads[k] \in {"pending", "aborted"}
         /\ loads' = [loads EXCEPT ![k] = "free"]
    /\ useRoads' = FALSE
    /\ UNCHANGED <<clicked, currentGraph, nid, startId, endId, routeLine,
                   avoidUnpaved, abortCtrl, mapCenter, handler, earlier>>
    /\ UNCHANGED dvars
    /\ UNCHANGED bvars
    /\ UNCHANGED pc

PageNext ==
    \/ ResetClick
    \/ MapClickThrows
    \/ MapClickStart
    \/ MapClickEnd
    \/ ClickRouted
    \/ AvoidUnpavedChange
    \/ AvoidUnpavedRecompute
    \/ AvoidRouted
    \/ UseRoadsOn
    \/ UseRoadsOff
    \/ SelectSearchResultGrid
    \/ SelectSearchResultRoads
    \/ LoadResolves
    \/ LoadFails
    \/ DijkstraNext

PageSpec == PageInit /\ [][PageNext]_vars

----------------------------------------------------------------------------
\* What the claims about the engine are stated with.

Keys == Range(ObjectKeys(adjacency))

\* The multiplier in force: the unpaved factor when avoidance is on, 1 otherwise.
Multiplier == IF opts.avoidUnpaved THEN opts.unpavedFactor ELSE 1

\* What an edge is charged under the cost policy.
Charge(e) == IF e.unpaved THEN e.weight * Multiplier ELSE e.weight

\* The smallest of a non-empty set of numbers and Infinity.
Smallest(S) == CHOOSE x \in S : \A y \in S : ~Lt(y, x)

\* The edges of the graph: <<u, i>> is the i-th outgoing edge of u.
EdgeSlots == UNION {{<<u, i>> : i \in DOMAIN adjacency.at[u]} : u \in Keys}

EdgeAt(t) == adjacency.at[t[1]][t[2]]

\* The place of a key in the key list.
PositionOf(v) == CHOOSE i \in DOMAIN adjacency.keys : adjacency.keys[i] = v

\* From the costs p of the cheapest walks of at most k edges from start to
\* each key (in key order, Infinity when there is none), the costs of the
\* cheapest walks of at most k + 1 edges to the first i keys.
RECURSIVE OneEdgeMore(_, _)
OneEdgeMore(p, i) ==
    IF i = 0 THEN <<>>
    ELSE Append(OneEdgeMore(p, i - 1),
                Smallest({p[i]} \cup
                         {p[PositionOf(t[1])] + Charge(EdgeAt(t)) :
                            t \in {x \in EdgeSlots :
                                     /\ p[PositionOf(x[1])] # Infinity
                                     /\ EdgeAt(x).to = adjacency.keys[i]}}))

\* The cost of the cheapest walk of at most k edges from start to each key.
RECURSIVE CheapestWithin(_)
CheapestWithin(k) ==
    IF k = 0
    THEN [i \in DOMAIN adjacency.keys |->
            IF adjacency.keys[i] = start THEN 0 ELSE Infinity]
    ELSE OneEdgeMore(CheapestWithin(k - 1), Len(adjacency.keys))

\* The minimum, over all paths from start to v, of the sum of the charges of
\* the path's edges: a cheapest walk needs no more edges than there are keys.
ShortestCost(v) == CheapestWithin(Len(adjacency.keys))[PositionOf(v)]

\* The cheapest edge from u to v, Infinity when there is none.
CheapestEdge(u, v) ==
    Smallest({Infinity} \cup
             {Charge(adjacency.at[u][i]) :
                i \in {j \in DOMAIN adjacency.at[u] : adjacency.at[u][j].to = v}})

\* The sum of the cheapest edges along a path.
RECURSIVE PathCost(_)
PathCost(p) ==
    IF Len(p) < 2 THEN 0
    ELSE CheapestEdge(p[1], p[2]) + PathCost(Tail(p))

IsRoute(p) ==
    /\ p # <<>>
    /\ p[1] = start
    /\ p[Len(p)] = goal
    /\ \A i, j \in DOMAIN p : i # j => p[i] # p[j]
    /\ \A i \in 1..(Len(p) - 1) :
         /\ p[i] \in Keys
         /\ CheapestEdge(p[i], p[i + 1]) # Infinity

Returned == pc = "done"

----------------------------------------------------------------------------
\* C1: when start and goal are keys of the adjacency and goal is reachable
\* from start, the returned distance is the minimum over all start-to-goal
\* paths of the sum of the effective edge costs; the early exit at the goal
\* returns nothing larger.
C1_DistanceIsMinimum ==
    (Returned /\ start \in Keys /\ goal \in Keys /\ ShortestCost(goal) # Infinity)
        => result.distance = ShortestCost(goal)

\* The search left at the goal while a queued node that the search had
\* reached still had an edge to the goal: a route it never followed.
C1_Witness ==
    /\ Returned
    /\ start \in Keys /\ goal \in Keys /\ start # goal
    /\ result.distance > 0
    /\ \E n \in Range(queue) :
         /\ dist[n] # Infinity
         /\ CheapestEdge(n, goal) # Infinity
         /\ dist[n] + CheapestEdge(n, goal) > result.distance

\* C2: a non-empty returned path begins with start, ends with goal, repeats
\* no node, steps along outgoing edges only, and the charges of its edges
\* add up to the returned distance.
C2_PathIsRoute ==
    (Returned /\ result.path # <<>>)
        => /\ IsRoute(result.path)
           /\ result.distance = PathCost(result.path)

C2_Witness ==
    /\ Returned
    /\ Len(result.path) > 2
    /\ result.distance > 0

\* C3: on the cost-policy example the engine returns the paved route of cost
\* 250 under multiplier 3 and the unpaved route of cost 100 under multiplier
\* 1; in general every distance the search records through an edge is the
\* distance of the edge's source plus weight times the multiplier for an
\* unpaved edge and plus the plain weight for a paved one.
C3_PolicyChoosesRoute ==
    /\ (Returned /\ adjacency = PolicyExampleAdjacency /\ start = "0" /\ goal = "2")
          => /\ Multiplier = 3 => /\ result.path = <<"0", "1", "2">>
                                  /\ result.distance = 250
             /\ Multiplier = 1 => /\ result.path = <<"0", "2">>
                                  /\ result.distance = 100
    /\ \A v \in DOMAIN prev :
         \E i \in DOMAIN adjacency.at[prev[v]] :
            LET e == adjacency.at[prev[v]][i]
            IN  /\ e.to = v
                /\ dist[v] = dist[prev[v]]
                               + (IF e.unpaved THEN e.weight * Multiplier ELSE e.weight)

C3_Witness ==
    /\ Returned
    /\ adjacency = PolicyExampleAdjacency /\ start = "0" /\ goal = "2"
    /\ Multiplier = 3
    /\ result.distance = 250

\* C4: when start and goal are keys, goal differs from start and no path
\* leads from start to goal, the result is the empty path with distance
\* Infinity.
C4_UnreachableResult ==
    (Returned /\ start \in Keys /\ goal \in Keys /\ goal # start
              /\ ShortestCost(goal) = Infinity)
        => /\ result.path = <<>>
           /\ result.distance = Infinity

\* The goal is unreachable although the start has outgoing edges.
C4_Witness ==
    /\ Returned
    /\ start \in Keys /\ goal \in Keys /\ goal # start
    /\ ShortestCost(goal) = Infinity
    /\ adjacency.at[start] # <<>>
    /\ result.visitedCount > 1

\* C5: with start = goal = s, a key of the adjacency, the result is the path
\* [s] with distance 0.
C5_StartIsGoal ==
    (Returned /\ start \in Keys /\ goal = start)
        => /\ result.path = <<start>>
           /\ result.distance = 0

\* start = goal with a zero-weight edge leaving it.
C5_Witness ==
    /\ Returned
    /\ start \in Keys /\ goal = start
    /\ \E i \in DOMAIN adjacency.at[start] : adjacency.at[start][i].weight = 0

\* C6: a query whose start or goal is no node of the graph fails with
\* UnknownNode: the function never returns a result for it.
C6_UnknownNodeFails ==
    (start \notin Keys \/ goal \notin Keys) => ~Returned

----------------------------------------------------------------------------
\* What the claims about the builders are stated with.

Built == pc = "built"

GridBuilt == Built /\ call.fn = "buildGridGraph"

RoadBuilt == Built /\ call.fn = "fetchRoadGraph"

GraphIds == {graph.nodes[i].id : i \in DOMAIN graph.nodes}

\* How many of the first k edges leave the node that edge k leaves.
RankAmongSiblings(k) ==
    Cardinality({m \in 1..k : graph.edges[m].from = graph.edges[k].from})

RECURSIVE TotalEntries(_)
TotalEntries(ks) ==
    IF ks = <<>> THEN 0
    ELSE Len(graph.adjacency.at[Head(ks)]) + TotalEntries(Tail(ks))

\* C7: the graph a builder returns has unique node ids, edges between its
\* own nodes only, every node id (and nothing else) as a key of adjacency,
\* and adjacency[id] listing exactly the edges that leave id, in edge-list
\* order, so that the adjacency entries are as many as the edges.
C7_GraphModelInvariant ==
    Built =>
        /\ \A i, j \in DOMAIN graph.nodes :
              i # j => graph.nodes[i].id # graph.nodes[j].id
        /\ \A k \in DOMAIN graph.edges :
              /\ graph.edges[k].from \in GraphIds
              /\ graph.edges[k].to \in GraphIds
        /\ Range(graph.adjacency.keys) = GraphIds
        /\ DOMAIN graph.adjacency.at = GraphIds
        /\ Len(graph.adjacency.keys) = Cardinality(GraphIds)
        /\ \A k \in DOMAIN graph.edges :
              LET row == graph.adjacency.at[graph.edges[k].from]
                  n   == RankAmongSiblings(k)
              IN  /\ n <= Len(row)
                  /\ row[n].to = graph.edges[k].to
                  /\ row[n].weight = graph.edges[k].weight
                  /\ row[n].unpaved = graph.edges[k].unpaved
        /\ TotalEntries(graph.adjacency.keys) = Len(graph.edges)

\* A road graph from a response that lists a node twice and a way through a
\* missing node, with a node that three edges leave.
C7_Witness ==
    /\ RoadBuilt
    /\ \E i, j \in DOMAIN call.elements :
          /\ i # j
          /\ call.elements[i].type = "node" /\ call.elements[j].type = "node"
          /\ call.elements[i].id = call.elements[j].id
    /\ \E w \in DOMAIN ways : \E i \in DOMAIN ways[w].nodes :
          ways[w].nodes[i] \notin DOMAIN nodeMap.at
    /\ \E id \in GraphIds : Len(graph.adjacency.at[id]) >= 3

\* C8: a grid of r rows and c columns has r * c nodes and
\* 2 * (r * (c - 1) + c * (r - 1)) directed edges, every one of them paved.
C8_GridCounts ==
    GridBuilt =>
        /\ Len(graph.nodes) = call.rows * call.cols
        /\ Len(graph.edges) =
              2 * (call.rows * (call.cols - 1) + call.cols * (call.rows - 1))
        /\ \A k \in DOMAIN graph.edges :
              /\ graph.edges[k].unpaved = FALSE
              /\ graph.edges[k].surface = "paved"

C8_Witness ==
    /\ GridBuilt
    /\ call.rows = 3 /\ call.cols = 2
    /\ Len(graph.edges) = 14

\* The lattice position of a grid node, read off its coordinates.
StartLat == call.center.lat - ((call.rows - 1) * call.delta) \div 2

StartLng == call.center.lng - ((call.cols - 1) * call.delta) \div 2

LatticeNeighbours(u, v) ==
    \/ u.lat = v.lat /\ Abs(u.lng - v.lng) = call.delta
    \/ u.lng = v.lng /\ Abs(u.lat - v.lat) = call.delta

\* C9: in a grid graph the node at lattice position (row, col) has the id
\* row * cols + col; u -> v is an edge exactly when u and v are immediate
\* up/down/left/right lattice neighbours; every edge has a reverse edge of
\* equal weight.
C9_GridLattice ==
    GridBuilt =>
        /\ \A r \in 0..(call.rows - 1), c \in 0..(call.cols - 1) :
              \E i \in DOMAIN graph.nodes :
                 /\ graph.nodes[i].id = StringOf(r * call.cols + c)
                 /\ graph.nodes[i].lat = StartLat + r * call.delta
                 /\ graph.nodes[i].lng = StartLng + c * call.delta
        /\ \A i, j \in DOMAIN graph.nodes :
              (\E k \in DOMAIN graph.edges :
                  /\ graph.edges[k].from = graph.nodes[i].id
                  /\ graph.edges[k].to = graph.nodes[j].id)
                <=> LatticeNeighbours(graph.nodes[i], graph.nodes[j])
        /\ \A k \in DOMAIN graph.edges :
              \E m \in DOMAIN graph.edges :
                 /\ graph.edges[m].from = graph.edges[k].to
                 /\ graph.edges[m].to = graph.edges[k].from
                 /\ graph.edges[m].weight = graph.edges[k].weight

\* A 3 x 3 grid: its middle node has four neighbours, and the left-right
\* edges of different rows differ in weight.
C9_Witness ==
    /\ GridBuilt
    /\ call.rows = 3 /\ call.cols = 3
    /\ Len(graph.adjacency.at["4"]) = 4
    /\ \E k, m \in DOMAIN graph.edges :
          /\ graph.edges[k].from = "0" /\ graph.edges[k].to = "1"
          /\ graph.edges[m].from = "6" /\ graph.edges[m].to = "7"
          /\ graph.edges[k].weight # graph.edges[m].weight

\* C10: for every retained way and every consecutive pair (A, B) of its node
\* sequence with both ids among the parsed nodes, the road graph holds the
\* edges A -> B and B -> A, of equal weight, both with the way's surface
\* classification, whatever the oneway tag; a way tagged surface=gravel
\* yields unpaved edges.
C10_BothDirections ==
    RoadBuilt =>
        \A w \in DOMAIN ways : \A i \in 1..(Len(ways[w].nodes) - 1) :
           LET a == ways[w].nodes[i]
               b == ways[w].nodes[i + 1]
           IN  (a \in DOMAIN nodeMap.at /\ b \in DOMAIN nodeMap.at) =>
                  \E k, m \in DOMAIN graph.edges :
                     /\ graph.edges[k].from = RoadNodeId(a)
                     /\ graph.edges[k].to = RoadNodeId(b)
                     /\ graph.edges[m].from = RoadNodeId(b)
                     /\ graph.edges[m].to = RoadNodeId(a)
                     /\ graph.edges[k].weight = graph.edges[m].weight
                     /\ graph.edges[k].weight = Haversine(nodeMap.at[a], nodeMap.at[b])
                     /\ graph.edges[k].unpaved = graph.edges[m].unpaved
                     /\ graph.edges[k].unpaved = IsUnpaved(ways[w].tags)
                     /\ ways[w].tags.surface = "gravel" => graph.edges[k].unpaved

\* The example: one way tagged surface=gravel and oneway=yes over the nodes
\* 1, 2, 3, all parsed, gives exactly the four unpaved edges.
C10_Witness ==
    /\ RoadBuilt
    /\ Len(ways) = 1
    /\ ways[1].nodes = <<1, 2, 3>>
    /\ ways[1].tags.surface = "gravel" /\ ways[1].tags.oneway = "yes"
    /\ Len(graph.edges) = 4
    /\ \A k \in DOMAIN graph.edges : graph.edges[k].unpaved
    /\ {<<graph.edges[k].from, graph.edges[k].to>> : k \in DOMAIN graph.edges}
          = {<<"n1", "n2">>, <<"n2", "n1">>, <<"n2", "n3">>, <<"n3", "n2">>}

\* C11: the road build fails with the area error exactly when the area of
\* the bounding box is strictly greater than maxAreaDeg2 (an area equal to
\* the limit passes); when it fails so, no request has been issued, no
\* element parsed and no graph built.
C11_AreaGuard ==
    (call.fn = "fetchRoadGraph" /\ pc # "road.guard") =>
        /\ (error = AreaTooLarge)
              <=> BboxAreaDeg2(call.bounds) > call.maxAreaDeg2
        /\ (error = AreaTooLarge) =>
              /\ pc = "thrown"
              /\ requests = 0
              /\ nodeMap = EmptyJsMap /\ ways = <<>>
              /\ nodes = <<>> /\ edges = <<>> /\ graph = NoGraph
        /\ (BboxAreaDeg2(call.bounds) = call.maxAreaDeg2 /\ call.ok)
              => pc # "thrown"

\* A box of area 30 against the limit 25: the call has thrown.
C11_Witness ==
    /\ pc = "thrown"
    /\ error = AreaTooLarge
    /\ call.maxAreaDeg2 = DefaultMaxAreaDeg2
    /\ BboxAreaDeg2(call.bounds) = 30

\* The osm ids of the node elements of the response.
ResponseNodeIds ==
    {call.elements[i].id :
       i \in {j \in DOMAIN call.elements : call.elements[j].type = "node"}}

\* <<e, i>>: element e is a way of two nodes or more, and both ends of its
\* i-th segment are node elements of the response.
SoundSegments ==
    UNION {{<<e, i>> : i \in {j \in 1..(Len(call.elements[e].nodes) - 1) :
                                 /\ call.elements[e].nodes[j] \in ResponseNodeIds
                                 /\ call.elements[e].nodes[j + 1] \in ResponseNodeIds}} :
             e \in {x \in DOMAIN call.elements : /\ call.elements[x].type = "way"
                                                 /\ Len(call.elements[x].nodes) >= 2}}

HasEdge(a, b) ==
    \E k \in DOMAIN graph.edges :
       graph.edges[k].from = RoadNodeId(a) /\ graph.edges[k].to = RoadNodeId(b)

\* C12: a way segment with an endpoint that is no parsed node is skipped and
\* the build goes on: a call that passes the guard and is answered ok never
\* throws; the graph holds both edges of every segment whose two ends are
\* parsed nodes, two edges for each such segment and no others, no edge
\* names an id that was not parsed, and a way of fewer than two nodes gives
\* no edge.
C12_DanglingSegmentsSkipped ==
    /\ (call.fn = "fetchRoadGraph" /\ call.ok
           /\ BboxAreaDeg2(call.bounds) <= call.maxAreaDeg2) => pc # "thrown"
    /\ RoadBuilt =>
          /\ \A t \in SoundSegments :
                LET ns == call.elements[t[1]].nodes
                IN  HasEdge(ns[t[2]], ns[t[2] + 1]) /\ HasEdge(ns[t[2] + 1], ns[t[2]])
          /\ Len(graph.edges) = 2 * Cardinality(SoundSegments)
          /\ \A k \in DOMAIN graph.edges :
                /\ graph.edges[k].from \in {RoadNodeId(x) : x \in ResponseNodeIds}
                /\ graph.edges[k].to \in {RoadNodeId(x) : x \in ResponseNodeIds}

\* A way whose first segment starts at a missing node and whose second
\* segment joins two parsed nodes, next to a way of a single node.
C12_Witness ==
    /\ RoadBuilt
    /\ \E e \in DOMAIN call.elements :
          /\ call.elements[e].type = "way"
          /\ Len(call.elements[e].nodes) = 3
          /\ call.elements[e].nodes[1] \notin ResponseNodeIds
          /\ <<e, 2>> \in SoundSegments
    /\ \E e \in DOMAIN call.elements :
          call.elements[e].type = "way" /\ Len(call.elements[e].nodes) = 1
    /\ Len(graph.edges) = 2

\* The classification by the tag values as they are written.
TagsAsWritten(tags) ==
    \/ tags.surface \in {"unpaved", "gravel", "dirt", "ground", "earth", "grass",
                          "mud", "sand", "pebblestone", "fine_gravel"}
    \/ tags.tracktype \in {"grade2", "grade3", "grade4", "grade5"}
    \/ tags.highway = "track"

\* The classification by the tag values in lower case.
TagsInLowerCase(tags) ==
    \/ ToLowerCase(tags.surface) \in
          {"unpaved", "gravel", "dirt", "ground", "earth", "grass", "mud", "sand",
           "pebblestone", "fine_gravel"}
    \/ ToLowerCase(tags.tracktype) \in {"grade2", "grade3", "grade4", "grade5"}
    \/ ToLowerCase(tags.highway) = "track"

\* Every edge of a retained way carries the flag class(tags of the way), and
\* every edge of the graph carries the flag of a way it is a segment of.
FlagsFollow(class(_)) ==
    /\ \A w \in DOMAIN ways : \A i \in 1..(Len(ways[w].nodes) - 1) :
          LET a == ways[w].nodes[i]
              b == ways[w].nodes[i + 1]
          IN  (a \in DOMAIN nodeMap.at /\ b \in DOMAIN nodeMap.at) =>
                 \E k, m \in DOMAIN graph.edges :
                    /\ graph.edges[k].from = RoadNodeId(a)
                    /\ graph.edges[k].to = RoadNodeId(b)
                    /\ graph.edges[m].from = RoadNodeId(b)
                    /\ graph.edges[m].to = RoadNodeId(a)
                    /\ graph.edges[k].unpaved = class(ways[w].tags)
                    /\ graph.edges[m].unpaved = class(ways[w].tags)
    /\ \A k \in DOMAIN graph.edges :
          \E w \in DOMAIN ways : \E i \in 1..(Len(ways[w].nodes) - 1) :
             /\ {graph.edges[k].from, graph.edges[k].to}
                   = {RoadNodeId(ways[w].nodes[i]), RoadNodeId(ways[w].nodes[i + 1])}
             /\ graph.edges[k].unpaved = class(ways[w].tags)

\* C13 as stated: a way is unpaved exactly when its surface tag is one of
\* the ten unpaved surfaces, or its tracktype tag one of grade2 .. grade5, or
\* its highway tag equals track, and every emitted edge carries that flag.
C13_ClassifiedByTags == RoadBuilt => FlagsFollow(TagsAsWritten)

\* C13 as amended: a way is unpaved exactly when its surface tag in lower
\* case is one of the ten unpaved surfaces, or its tracktype tag in lower
\* case one of grade2 .. grade5, or its highway tag in lower case equals
\* track; any other way, one without tags included, is paved; and every
\* emitted edge carries that flag.
C13_ClassifiedByLowerCasedTags == RoadBuilt => FlagsFollow(TagsInLowerCase)

\* A way tagged tracktype=GRADE3 with a paved surface: its edges are unpaved.
C13_Witness ==
    /\ RoadBuilt
    /\ Len(ways) = 1
    /\ ways[1].tags.tracktype = "GRADE3"
    /\ ways[1].tags.surface = "asphalt"
    /\ Len(graph.edges) = 2
    /\ \A k \in DOMAIN graph.edges : graph.edges[k].unpaved

----------------------------------------------------------------------------
\* What the claims about the nearest-node query are stated with.

\* The query has returned.
NearestReturned == pc \in {"click.select", "idle", "thrown"}

\* The distance from the clicked point to the i-th node of a list.
Away(ns, i) == Haversine(clicked, [lat |-> ns[i].lat, lng |-> ns[i].lng])

\* The i-th node of a list is as near to the clicked point as any.
AtLeastDistance(ns, i) == \A j \in DOMAIN ns : Away(ns, i) <= Away(ns, j)

\* A list in the order f: its i-th node is the f[i]-th of ns.
Reordered(ns, f) == [i \in DOMAIN ns |-> ns[f[i]]]

\* C14: for a non-empty node list the query returns the id of a node no
\* farther from the point than any other node, and of the nodes at that
\* least distance the one that comes first in the list.
C14_NearestIsFirstMinimum ==
    (NearestReturned /\ currentGraph.nodes # <<>>) =>
        \E i \in DOMAIN currentGraph.nodes :
           /\ nid = currentGraph.nodes[i].id
           /\ AtLeastDistance(currentGraph.nodes, i)
           /\ \A j \in 1..(i - 1) :
                 Away(currentGraph.nodes, j) # Away(currentGraph.nodes, i)

\* Three nodes, the second and third nearest at the same distance: the second
\* is returned.
C14_Witness ==
    /\ NearestReturned
    /\ Len(currentGraph.nodes) = 3
    /\ Away(currentGraph.nodes, 2) = Away(currentGraph.nodes, 3)
    /\ Away(currentGraph.nodes, 2) < Away(currentGraph.nodes, 1)
    /\ nid = currentGraph.nodes[2].id

\* Two nodes of the list are equally far from the clicked point.
TwoEquidistant ==
    \E i, j \in DOMAIN currentGraph.nodes :
       i # j /\ Away(currentGraph.nodes, i) = Away(currentGraph.nodes, j)

\* The order f keeps the nodes at the least distance in their relative order.
KeepsNearestInOrder(ns, f) ==
    \A a, b \in DOMAIN ns :
       (a < b /\ AtLeastDistance(ns, f[a]) /\ AtLeastDistance(ns, f[b])) => f[a] < f[b]

\* C15 as stated: with two nodes equidistant from the point in the list, the
\* query returns the same id for every order of the list.
C15_SameForEveryOrder ==
    (NearestReturned /\ TwoEquidistant) =>
        \A f \in Permutations(DOMAIN currentGraph.nodes) :
           NearestNodeId(clicked, Reordered(currentGraph.nodes, f)) = nid

\* C15 as amended: with two nodes equidistant from the point in the list, the
\* query returns the same id for every order of the list that keeps the
\* nodes at the least distance in their relative order (so for every order
\* when one node earlier is nearest).
C15_SameForOrdersKeepingNearest ==
    (NearestReturned /\ TwoEquidistant) =>
        \A f \in Permutations(DOMAIN currentGraph.nodes) :
           KeepsNearestInOrder(currentGraph.nodes, f) =>
              NearestNodeId(clicked, Reordered(currentGraph.nodes, f)) = nid

\* Three nodes at three places, the first two nearest at the same distance.
C15_Witness ==
    /\ NearestReturned
    /\ Len(currentGraph.nodes) = 3
    /\ Away(currentGraph.nodes, 1) = Away(currentGraph.nodes, 2)
    /\ Away(currentGraph.nodes, 1) < Away(currentGraph.nodes, 3)
    /\ nid = currentGraph.nodes[1].id

\* C16: on a graph without nodes the query fails with EmptyGraph: it never
\* returns a value to the click handler.
C16_EmptyGraphFails == currentGraph.nodes = <<>> => ~NearestReturned

----------------------------------------------------------------------------
\* The monotone lattice paths of a 3 x 3 grid from the corner (0, 0), id
\* "0", to the corner (2, 2), id "8": four steps, each one column to the
\* right (the id grows by 1) or one row down (the id grows by 3), two of
\* each.
MonotonePaths ==
    {<<"0", StringOf(st[1]), StringOf(st[1] + st[2]),
       StringOf(st[1] + st[2] + st[3]), "8">> :
       st \in {x \in [1..4 -> {1, 3}] :
                 /\ x[1] + x[2] + x[3] + x[4] = 8
                 /\ \A k \in 1..3 :
                       x[k + 1] = 1 =>
                          (IF k = 1 THEN x[1]
                           ELSE IF k = 2 THEN x[1] + x[2]
                           ELSE x[1] + x[2] + x[3]) % 3 # 2}}

CornerToCorner ==
    Returned /\ adjacency \in GridAdjacencies /\ start = "0" /\ goal = "8"

\* C17 as stated: on a 3 x 3 grid the path from corner "0" to corner "8" has
\* 5 nodes and its cost is the sum of the 4 edge weights along any monotone
\* lattice path between the corners.
C17_CostOfAnyMonotonePath ==
    CornerToCorner =>
        /\ Len(result.path) = 5
        /\ \A m \in MonotonePaths : result.distance = PathCost(m)

\* C17 as amended: on a 3 x 3 grid the path from corner "0" to corner "8" is
\* a monotone lattice path of 5 nodes, and its cost is the sum of its 4 edge
\* weights, which is the least of the sums along the monotone lattice paths
\* (the weight of a left-right edge depends on the latitude of its row).
C17_CostOfCheapestMonotonePath ==
    CornerToCorner =>
        /\ Len(result.path) = 5
        /\ result.path \in MonotonePaths
        /\ result.distance = PathCost(result.path)
        /\ \A m \in MonotonePaths : result.distance <= PathCost(m)

\* The six monotone paths of a grid have three different costs and the path
\* returned has the least.
C17_Witness ==
    /\ CornerToCorner
    /\ Cardinality(MonotonePaths) = 6
    /\ Cardinality({PathCost(m) : m \in MonotonePaths}) >= 3
    /\ \A m \in MonotonePaths : result.distance <= PathCost(m)

----------------------------------------------------------------------------
\* C18: the visited count returned is the number of nodes moved from the
\* queue to the visited set when the search stopped, the goal among them
\* when the search stopped at it; at every moment of the search the visited
\* set and the queue are disjoint and together hold exactly the keys.
C18_ExploredCount ==
    /\ visited \cap Range(queue) = {}
    /\ visited \cup Range(queue) = Keys
    /\ Cardinality(visited) = Len(extracted)
    /\ Returned =>
          /\ result.visitedCount = Len(extracted)
          /\ result.visitedCount = Cardinality(Keys) - Len(queue)
          /\ (result.path # <<>> /\ start # goal) =>
                 extracted[Len(extracted)] = goal

\* The search stopped at the goal, its third extraction, with a node left
\* in the queue.
C18_Witness ==
    /\ Returned
    /\ result.visitedCount = 3
    /\ extracted[3] = goal
    /\ queue # <<>>

\* The visited nodes in extraction order have no node twice.
ExtractedOnce ==
    \A i, j \in DOMAIN extracted : i # j => extracted[i] # extracted[j]

\* The distances of the extracted nodes do not fall along the extraction
\* order.
ExtractedInOrder ==
    \A i, j \in DOMAIN extracted :
       i < j => ~Lt(dist[extracted[j]], dist[extracted[i]])

\* The distance of every visited node is the cost of a cheapest path to it.
VisitedAreSettled ==
    LET c == CheapestWithin(Len(adjacency.keys))
    IN  \A v \in visited : dist[v] = c[PositionOf(v)]

\* A step changes neither the distance nor the predecessor of a visited node.
VisitedStayFixed ==
    \A v \in visited : dist'[v] = dist[v] /\ GetId(prev', v) = GetId(prev, v)

\* C19: every node is extracted, and so relaxed from, at most once; the
\* distances of the nodes extracted one after the other do not decrease; the
\* distance of a visited node is its shortest effective-cost distance from
\* start, and no later step changes its distance or its predecessor.
C19_VisitedAreFinal ==
    /\ [](ExtractedOnce /\ ExtractedInOrder /\ VisitedAreSettled)
    /\ [][VisitedStayFixed]_vars

\* A third extraction at a greater distance than the second, of a node whose
\* distance was lowered after it was first reached.
C19_Witness ==
    /\ pc = "loop"
    /\ Len(extracted) = 3
    /\ Lt(dist[extracted[2]], dist[extracted[3]])
    /\ prev[extracted[3]] = extracted[2]
    /\ CheapestEdge(start, extracted[3]) # Infinity

\* The node k predecessor links back from v, undefined past the end of the
\* links.
RECURSIVE Back(_, _)
Back(v, k) ==
    IF k = 0 \/ v = UndefinedId THEN v ELSE Back(GetId(prev, v), k - 1)

\* No node is its own ancestor along the predecessor links.
PrevHasNoCycle ==
    \A v \in DOMAIN prev : \A k \in 1..Cardinality(DOMAIN prev) : Back(v, k) # v

\* The walk has put no node on the path twice.
WalkRepeatsNothing == \A i, j \in DOMAIN path : i # j => path[i] # path[j]

\* C20: the loop extracts a node at most once per node and then stops (at
\* the goal, at a least distance of Infinity, or at an empty queue); the
\* predecessor links never form a cycle and start never gets a predecessor,
\* so that the backward walk stops too and the call returns.
C20_SearchAndWalkStop ==
    /\ [](/\ Len(extracted) <= Cardinality(Keys)
          /\ ExtractedOnce
          /\ PrevHasNoCycle
          /\ start \notin DOMAIN prev
          /\ WalkRepeatsNothing)
    /\ <>Returned

\* A call that extracted every node of a graph of three nodes, the goal
\* last, and walked back over all three.
C20_Witness ==
    /\ Returned
    /\ Cardinality(Keys) = 3
    /\ Len(extracted) = 3
    /\ Len(result.path) = 3
    /\ \E i \in DOMAIN adjacency.at[goal] : adjacency.at[goal][i].to = start

----------------------------------------------------------------------------
\* C21: a call of dijkstra leaves the adjacency it is given as it was, and
\* a call made after any other calls on the same graph returns the distance,
\* the path and the visited count that an earlier call with the same start,
\* goal and options returned, the first call, which ran alone, included.

\* The call that has returned has the arguments of the earlier call kept.
SameArguments ==
    /\ earlier # NoEarlierCall
    /\ start = earlier.start
    /\ goal = earlier.goal
    /\ opts = earlier.opts

C21_CallsAreIndependent ==
    /\ [](Returned /\ SameArguments => result = earlier.result)
    /\ [][adjacency' = adjacency]_vars

\* A call made after an earlier call with the same arguments has returned:
\* unpaved roads are avoided, the start has an unpaved edge, and the route
\* has at least two nodes.
C21_Witness ==
    /\ Returned
    /\ SameArguments
    /\ opts.avoidUnpaved
    /\ Len(result.path) >= 2
    /\ \E i \in DOMAIN adjacency.at[start] :
         adjacency.at[start][i].unpaved
    /\ result.visitedCount >= 2

----------------------------------------------------------------------------
\* What the claims about the page are stated with.

\* The ids of the nodes of the installed graph.
InstalledIds == {currentGraph.nodes[i].id : i \in DOMAIN currentGraph.nodes}

\* The step is the run of the map click handler.
MapClicked == MapClickStart \/ MapClickEnd \/ MapClickThrows

\* A destination only with a start, a route line only with both.
SelectionInOrder ==
    /\ endId # Null => startId # Null
    /\ routeLine # <<>> => startId # Null /\ endId # Null

\* The first click of a route: the start alone is set, to a node of the
\* graph, and nothing is computed.
FirstClick ==
    /\ startId = Null /\ endId = Null
    /\ startId' \in InstalledIds
    /\ endId' = Null
    /\ routeLine' = routeLine
    /\ pc' = "idle"

\* The second click: the destination is set, the start stays, and dijkstra
\* is entered on the installed graph from the start to the destination.
SecondClick ==
    /\ startId # Null /\ endId = Null
    /\ startId' = startId
    /\ endId' \in InstalledIds
    /\ pc' = "loop"
    /\ adjacency' = currentGraph.adjacency
    /\ start' = startId
    /\ goal' = endId'

\* A click on a completed selection: the old route is cleared and the click
\* is the new start.
ClickAfterRoute ==
    /\ startId # Null /\ endId # Null
    /\ startId' \in InstalledIds
    /\ endId' = Null
    /\ routeLine' = <<>>
    /\ pc' = "idle"

\* Once dijkstra has returned the handler ends without calling it again,
\* and a line drawn is the path returned.
ComputedOnce ==
    pc = "done" =>
      /\ pc' = "idle"
      /\ routeLine' # <<>> => routeLine' = result.path
      /\ UNCHANGED <<startId, endId>>

\* C22: over the clicks and resets the selection is made start first, then
\* destination.  On a graph with nodes, a click with nothing selected sets
\* the start only, the next click sets the destination and runs one route
\* computation, and a click on a completed selection clears the old route
\* and becomes the new start; a reset clears all three.  In every state a
\* destination is set only if a start is, and a route line is drawn only if
\* both are.
C22_StartThenDestination ==
    /\ []SelectionInOrder
    /\ [][MapClicked /\ currentGraph.nodes # <<>> =>
             FirstClick \/ SecondClick \/ ClickAfterRoute]_vars
    /\ [][ComputedOnce]_vars
    /\ [][ResetClick =>
             startId' = Null /\ endId' = Null /\ routeLine' = <<>>]_vars

\* A route of at least one edge is drawn between the selected start and the
\* selected destination.
C22_Witness ==
    /\ pc = "idle"
    /\ currentGraph.nodes # <<>>
    /\ Len(routeLine) >= 2
    /\ routeLine[1] = startId
    /\ routeLine[Len(routeLine)] = endId

\* C23: a selected start or destination is a node of the installed graph,
\* and dijkstra is called by the page with a start and a goal that are keys
\* of the adjacency it is given.
C23_SelectionInInstalledGraph ==
    /\ startId # Null => startId \in InstalledIds
    /\ endId # Null => endId \in InstalledIds
    /\ handler # "none" =>
         /\ start \in Range(ObjectKeys(adjacency))
         /\ goal \in Range(ObjectKeys(adjacency))

\* No road load is awaited.
NoLoadPending == \A k \in 1..MaxLoads : loads[k] = "free"

\* The installed graph is one buildGridGraph built.
GridBacked == \E c \in Centers : currentGraph = PageGrid(c)

\* C24: whenever no road load is pending, the installed graph is a road
\* graph exactly when 'Use roads' is checked.
C24_GraphFollowsToggle ==
    NoLoadPending => (useRoads <=> ~GridBacked)

====
